---------------------------- MODULE Spec2Model ----------------------------
(***************************************************************************)
(* UVMAC: VHASH (NH, poly-127, l3hash) followed by a one-time-pad          *)
(* addition, as implemented in uvmac.c / uvmaclib.h.                       *)
(*                                                                         *)
(* TLC's integers are 32 bits wide, so a uint64_t is kept as its 8 bytes,  *)
(* least significant first (<<b0, ..., b7>>), and all arithmetic is done   *)
(* on these bytes with the carries of the C code: nothing is scaled down.  *)
(***************************************************************************)
EXTENDS Integers, Sequences, FiniteSets, TLC

(***************************************************************************)
(* uint64_t arithmetic on byte sequences                                   *)
(***************************************************************************)

\* The uint64_t whose value is the small natural n (n < 2^31).
U64(n) ==
    << n % 256, (n \div 256) % 256, (n \div 65536) % 256, (n \div 16777216) % 256,
       0, 0, 0, 0 >>

\* C evaluates the arguments of a call before the call; TLC evaluates an argument
\* only when it is first used. Ev(x) is TRUE, and evaluates x where it stands.
Ev(x) == x = x

\* the carry into byte i of a + b (carry look-ahead): some byte j below i overflows,
\* and every byte between them passes a carry on
AddCarry(a, b, i) ==
    IF \E j \in 1..(i - 1) : /\ a[j] + b[j] >= 256
                             /\ \A k \in (j + 1)..(i - 1) : a[k] + b[k] >= 255
    THEN 1 ELSE 0

\* uint64_t a + b (mod 2^64)
Add64(a, b) ==
    CASE Ev(<< a, b >>) ->
        SubSeq([i \in 1..8 |-> (a[i] + b[i] + AddCarry(a, b, i)) % 256], 1, 8)

\* uint64_t a < b: the most significant byte that differs decides
Lt64(a, b) == \E i \in 1..8 : a[i] < b[i] /\ \A j \in (i + 1)..8 : a[j] = b[j]

\* 2^n, 0 <= n <= 8
Pow2(n) == << 1, 2, 4, 8, 16, 32, 64, 128, 256 >>[n + 1]

\* bit n of the byte x
Bit(x, n) == (x \div Pow2(n)) % 2

RECURSIVE BitAnd(_, _, _, _)
\* the bits lo .. hi of x & y, for bytes x and y
BitAnd(x, y, lo, hi) ==
    IF lo = hi THEN Bit(x, lo) * Bit(y, lo) * Pow2(lo)
    ELSE BitAnd(x, y, lo, (lo + hi) \div 2) + BitAnd(x, y, (lo + hi) \div 2 + 1, hi)

\* uint64_t a & b
And64(a, b) == SubSeq([i \in 1..8 |-> BitAnd(a[i], b[i], 0, 7)], 1, 8)

\* byte i (1..8) of a, 0 outside
ByteAt(a, i) == IF i >= 1 /\ i <= 8 THEN a[i] ELSE 0

\* uint64_t a >> n, 0 <= n < 64
Shr64(a, n) ==
    LET q == n \div 8
        r == n % 8
        B(i) == (ByteAt(a, i + q) \div Pow2(r)) + (ByteAt(a, i + q + 1) % Pow2(r)) * Pow2(8 - r)
    IN  << B(1), B(2), B(3), B(4), B(5), B(6), B(7), B(8) >>

\* uint64_t a << n, 0 <= n < 64
Shl64(a, n) ==
    LET q == n \div 8
        r == n % 8
        B(i) == (ByteAt(a, i - q) % Pow2(8 - r)) * Pow2(r) + (ByteAt(a, i - q - 1) \div Pow2(8 - r))
    IN  << B(1), B(2), B(3), B(4), B(5), B(6), B(7), B(8) >>

\* (uint32_t) a
Low32(a) == << a[1], a[2], a[3], a[4], 0, 0, 0, 0 >>

RECURSIVE ColSum(_, _, _, _, _)
\* column k (1..15) of the schoolbook product: the sum of a[i] * b[k + 1 - i] for
\* i = lo .. hi, where 1 <= lo <= hi <= 8 and 1 <= k + 1 - i <= 8
ColSum(a, b, k, lo, hi) ==
    IF lo = hi THEN a[lo] * b[k + 1 - lo]
    ELSE ColSum(a, b, k, lo, (lo + hi) \div 2) + ColSum(a, b, k, (lo + hi) \div 2 + 1, hi)

\* column k (1..16) of the product: the bytes of a that meet a byte of b there
Col(a, b, k) ==
    IF k = 16 THEN 0
    ELSE ColSum(a, b, k, IF k > 8 THEN k - 7 ELSE 1, IF k > 8 THEN 8 ELSE k)

\* the columns 2j-1 and 2j as one 16-bit position of the product (below 2^28)
MulLimb(a, b, j) == Col(a, b, 2 * j - 1) + 256 * Col(a, b, 2 * j)

\* the eight 16-bit positions of the product a * b, each with all of its columns
MulLimbs(a, b) == SubSeq([j \in 1..8 |-> MulLimb(a, b, j)], 1, 8)

\* position j (1..8) of L cut to 16 bits, plus what the position below hands up
MulPos(L, j) == (L[j] % 65536) + (IF j = 1 THEN 0 ELSE L[j - 1] \div 65536)

\* the eight positions (each below 2^17) before the carries between them
MulCols(L) == CASE Ev(L) -> SubSeq([j \in 1..8 |-> MulPos(L, j)], 1, 8)

\* the carry (0 or 1) out of position j of u (carry look-ahead): some position
\* i <= j overflows, and every position above it up to j passes a carry on
MulCarry(u, j) ==
    IF \E i \in 1..j : u[i] >= 65536 /\ \A k \in (i + 1)..j : u[k] >= 65535
    THEN 1 ELSE 0

\* byte i (1..16) of the number with the positions u
MulByte(u, i) ==
    IF i % 2 = 1
    THEN (u[(i + 1) \div 2] + MulCarry(u, (i + 1) \div 2 - 1)) % 256
    ELSE ((u[(i + 1) \div 2] + MulCarry(u, (i + 1) \div 2 - 1)) \div 256) % 256

\* <<high, low>> halves of the 128-bit number with the positions u
MulOut(u) ==
    CASE Ev(u) -> << SubSeq([i \in 1..8 |-> MulByte(u, i + 8)], 1, 8),
                     SubSeq([i \in 1..8 |-> MulByte(u, i)], 1, 8) >>

\* MUL64(rh,rl,i1,i2) (mulq): the 128-bit product of two uint64_t, as <<rh, rl>>
MUL64(i1, i2) == CASE Ev(<< i1, i2 >>) -> MulOut(MulCols(MulLimbs(i1, i2)))

\* <<rh + ih + carry, rl + il>> for the sums h of the high and lo of the low halves:
\* the low halves carried if their sum is below il (adcq)
AddHigh(h, lo, il) ==
    << IF Lt64(lo, il) THEN Add64(h, << 1, 0, 0, 0, 0, 0, 0, 0 >>) ELSE h, lo >>

\* ADD128(rh,rl,ih,il): (rh,rl) += (ih,il) mod 2^128, as <<rh, rl>>
ADD128(rh, rl, ih, il) ==
    CASE Ev(<< rh, rl, ih, il >>) -> AddHigh(Add64(rh, ih), Add64(rl, il), il)

\* ADD128 of two pairs <<h, l>>
ADD128p(r, i) == ADD128(r[1], r[2], i[1], i[2])

\* GET_REVERSED_64: the 8 bytes s in the opposite order
Reverse(s) == << s[8], s[7], s[6], s[5], s[4], s[3], s[2], s[1] >>

\* get64BE(ptr): the 8 bytes at byte offset off (0-based) of buf, first byte most significant
get64BE(buf, off) == Reverse(SubSeq(buf, off + 1, off + 8))

\* get64LE(ptr): the 8 bytes at byte offset off of buf, first byte least significant
get64LE(buf, off) == SubSeq(buf, off + 1, off + 8)

(***************************************************************************)
(* Constants and masks                                                     *)
(***************************************************************************)
p64   == << 255, 254, 255, 255, 255, 255, 255, 255 >>   \* 0xfffffffffffffeff
m62   == << 255, 255, 255, 255, 255, 255, 255, 63 >>    \* 0x3fffffffffffffff
m63   == << 255, 255, 255, 255, 255, 255, 255, 127 >>   \* 0x7fffffffffffffff
m64   == << 255, 255, 255, 255, 255, 255, 255, 255 >>   \* 0xffffffffffffffff
mpoly == << 255, 255, 255, 31, 255, 255, 255, 31 >>     \* 0x1fffffff1fffffff
Zero64 == << 0, 0, 0, 0, 0, 0, 0, 0 >>

One64  == << 1, 0, 0, 0, 0, 0, 0, 0 >>
c257   == << 1, 1, 0, 0, 0, 0, 0, 0 >>                   \* 257
cfffffffe == << 254, 255, 255, 255, 0, 0, 0, 0 >>        \* 0xfffffffeu

\* a C truth value (0 or 1) as a uint64_t
Bool64(c) == IF c THEN One64 ELSE Zero64

\* (0 - c) & 257 for a C truth value c
Neg257(c) == And64(IF c THEN m64 ELSE Zero64, c257)

(***************************************************************************)
(* Build parameters (uvmaclib.h)                                           *)
(***************************************************************************)
UVMAC_NHBYTES == 128
UVMAC_PREFER_BIG_ENDIAN == 0

\* get64PE: the message word at word offset w of the byte buffer m
get64PE(m, w) ==
    IF UVMAC_PREFER_BIG_ENDIAN # 0 THEN get64BE(m, 8 * w) ELSE get64LE(m, 8 * w)

(***************************************************************************)
(* Layer 1: NH                                                             *)
(***************************************************************************)

\* One MUL64 / ADD128 pair of the NH loops: message words mw, mw+1 of m against
\* key words kw, kw+1 (0-based) of the key table k, added into acc = <<rh, rl>>.
nh_pair(m, mw, k, kw, acc) ==
    CASE Ev(acc) ->
        ADD128p(acc, MUL64(Add64(get64PE(m, mw), k[kw + 1]),
                           Add64(get64PE(m, mw + 1), k[kw + 2])))

\* The loops below run their iterations lo .. hi in order: the upper half of the
\* range on what the lower half leaves.

RECURSIVE nh_16_loop(_, _, _, _, _, _, _)
\* for (i = 0; i < nw; i += 2): the iterations lo .. hi (i = 2 * lo .. 2 * hi)
nh_16_loop(m, mp, k, kp, lo, hi, acc) ==
    CASE Ev(acc) ->
        IF hi < lo THEN acc
        ELSE IF lo = hi THEN nh_pair(m, mp + 2 * lo, k, kp + 2 * lo, acc)
        ELSE nh_16_loop(m, mp, k, kp, (lo + hi) \div 2 + 1, hi,
                        nh_16_loop(m, mp, k, kp, lo, (lo + hi) \div 2, acc))

\* nh_16(mp, kp, nw, rh, rl): <<rh, rl>>
nh_16(m, mp, k, kp, nw) ==
    nh_16_loop(m, mp, k, kp, 0, nw \div 2 - 1, << Zero64, Zero64 >>)

\* A faulty iteration of nh_16_2 that takes the same key words for both accumulators
nh_pair_2_same_key(m, mw, k, kw, s) ==
    << nh_pair(m, mw, k, kw, s[1]), nh_pair(m, mw, k, kw, s[2]) >>

\* the two MUL64 / ADD128 pairs of one iteration of nh_16_2, on s = <<<<rh, rl>>,
\* <<rh1, rl1>>>>: the second with the key two words further
nh_pair_2(m, mw, k, kw, s) ==
    << nh_pair(m, mw, k, kw, s[1]), nh_pair(m, mw, k, kw + 2, s[2]) >>

RECURSIVE nh_16_2_loop(_, _, _, _, _, _, _)
nh_16_2_loop(m, mp, k, kp, lo, hi, s) ==
    CASE Ev(s) ->
        IF hi < lo THEN s
        ELSE IF lo = hi THEN nh_pair_2(m, mp + 2 * lo, k, kp + 2 * lo, s)
        ELSE nh_16_2_loop(m, mp, k, kp, (lo + hi) \div 2 + 1, hi,
                          nh_16_2_loop(m, mp, k, kp, lo, (lo + hi) \div 2, s))

\* <<rh, rl, rh1, rl1>> of the two accumulators
nh_out_2(s) == s[1] \o s[2]

\* nh_16_2(mp, kp, nw, rh, rl, rh1, rl1): <<rh, rl, rh1, rl1>>
nh_16_2(m, mp, k, kp, nw) ==
    nh_out_2(nh_16_2_loop(m, mp, k, kp, 0, nw \div 2 - 1,
                          << << Zero64, Zero64 >>, << Zero64, Zero64 >> >>))

\* the four MUL64 / ADD128 pairs of one iteration of nh_vhash_nhbytes(_2): message
\* words mw .. mw+7 against key words kw .. kw+7
nh_pair4(m, mw, k, kw, acc) ==
    nh_pair(m, mw + 6, k, kw + 6,
            nh_pair(m, mw + 4, k, kw + 4,
                    nh_pair(m, mw + 2, k, kw + 2,
                            nh_pair(m, mw, k, kw, acc))))

\* one iteration of nh_vhash_nhbytes_2 on s = <<<<rh, rl>>, <<rh1, rl1>>>>
nh_pair4_2(m, mw, k, kw, s) ==
    << nh_pair4(m, mw, k, kw, s[1]), nh_pair4(m, mw, k, kw + 2, s[2]) >>

RECURSIVE nh_vhash_nhbytes_loop(_, _, _, _, _, _, _)
\* for (i = 0; i < nw; i += 8): the iterations lo .. hi (i = 8 * lo .. 8 * hi)
nh_vhash_nhbytes_loop(m, mp, k, kp, lo, hi, acc) ==
    CASE Ev(acc) ->
        IF hi < lo THEN acc
        ELSE IF lo = hi THEN nh_pair4(m, mp + 8 * lo, k, kp + 8 * lo, acc)
        ELSE nh_vhash_nhbytes_loop(m, mp, k, kp, (lo + hi) \div 2 + 1, hi,
                                   nh_vhash_nhbytes_loop(m, mp, k, kp, lo, (lo + hi) \div 2, acc))

\* nh_vhash_nhbytes(mp, kp, nw, rh, rl): <<rh, rl>>
nh_vhash_nhbytes(m, mp, k, kp, nw) ==
    nh_vhash_nhbytes_loop(m, mp, k, kp, 0, nw \div 8 - 1, << Zero64, Zero64 >>)

RECURSIVE nh_vhash_nhbytes_2_loop(_, _, _, _, _, _, _)
nh_vhash_nhbytes_2_loop(m, mp, k, kp, lo, hi, s) ==
    CASE Ev(s) ->
        IF hi < lo THEN s
        ELSE IF lo = hi THEN nh_pair4_2(m, mp + 8 * lo, k, kp + 8 * lo, s)
        ELSE nh_vhash_nhbytes_2_loop(m, mp, k, kp, (lo + hi) \div 2 + 1, hi,
                                     nh_vhash_nhbytes_2_loop(m, mp, k, kp, lo, (lo + hi) \div 2, s))

\* nh_vhash_nhbytes_2(mp, kp, nw, rh, rl, rh2, rl2): <<rh, rl, rh2, rl2>>
nh_vhash_nhbytes_2(m, mp, k, kp, nw) ==
    nh_out_2(nh_vhash_nhbytes_2_loop(m, mp, k, kp, 0, nw \div 8 - 1,
                                     << << Zero64, Zero64 >>, << Zero64, Zero64 >> >>))

(***************************************************************************)
(* Layer 2: poly-127                                                       *)
(***************************************************************************)

\* Statement pc of poly_step on its variables v (t1h .. t3l are written before read)
poly_step_stmt(pc, v) ==
    CASE pc = 1 -> LET t == MUL64(v.al, v.kh)                  \* PMUL64(t3h,t3l,al,kh)
                   IN  [v EXCEPT !.t3h = t[1], !.t3l = t[2]]
      [] pc = 2 -> LET t == MUL64(v.ah, v.kl)                  \* PMUL64(t2h,t2l,ah,kl)
                   IN  [v EXCEPT !.t2h = t[1], !.t2l = t[2]]
      [] pc = 3 -> LET t == MUL64(v.ah, Add64(v.kh, v.kh))     \* PMUL64(t1h,t1l,ah,2*kh)
                   IN  [v EXCEPT !.t1h = t[1], !.t1l = t[2]]
      [] pc = 4 -> LET t == MUL64(v.al, v.kl)                  \* PMUL64(ah,al,al,kl)
                   IN  [v EXCEPT !.ah = t[1], !.al = t[2]]
      [] pc = 5 -> LET t == ADD128(v.ah, v.al, v.t1h, v.t1l)   \* ADD128(ah,al,t1h,t1l)
                   IN  [v EXCEPT !.ah = t[1], !.al = t[2]]
      [] pc = 6 -> LET t == ADD128(v.t2h, v.t2l, v.t3h, v.t3l) \* ADD128(t2h,t2l,t3h,t3l)
                   IN  [v EXCEPT !.t2h = t[1], !.t2l = t[2]]
      [] pc = 7 -> LET t == ADD128(v.t2h, v.ah, Zero64, v.t2l) \* ADD128(t2h,ah,z,t2l)
                   IN  [v EXCEPT !.t2h = t[1], !.ah = t[2]]
      [] pc = 8 -> [v EXCEPT !.t2h = Add64(Add64(v.t2h, v.t2h), Shr64(v.ah, 63))]
      [] pc = 9 -> [v EXCEPT !.ah = And64(v.ah, m63)]
      [] pc = 10 -> LET t == ADD128(v.ah, v.al, v.mh, v.ml)    \* ADD128(ah,al,mh,ml)
                    IN  [v EXCEPT !.ah = t[1], !.al = t[2]]
      [] pc = 11 -> LET t == ADD128(v.ah, v.al, Zero64, v.t2h) \* ADD128(ah,al,z,t2h)
                    IN  [v EXCEPT !.ah = t[1], !.al = t[2]]

RECURSIVE poly_step_run(_, _, _)
\* the statements lo .. hi of poly_step, in order
poly_step_run(lo, hi, v) ==
    CASE Ev(v) ->
        IF lo = hi THEN poly_step_stmt(lo, v)
        ELSE poly_step_run((lo + hi) \div 2 + 1, hi, poly_step_run(lo, (lo + hi) \div 2, v))

\* the <<ah, al>> of the variables v
poly_step_out(v) == << v.ah, v.al >>

\* poly_step(ah, al, kh, kl, mh, ml): the new <<ah, al>>
poly_step(ah, al, kh, kl, mh, ml) ==
    poly_step_out(poly_step_run(1, 11, [ah |-> ah, al |-> al, kh |-> kh, kl |-> kl,
                                    mh |-> mh, ml |-> ml,
                                    t1h |-> Zero64, t1l |-> Zero64, t2h |-> Zero64,
                                    t2l |-> Zero64, t3h |-> Zero64, t3l |-> Zero64]))

(***************************************************************************)
(* Layer 3: l3hash                                                         *)
(***************************************************************************)

\* Statement pc of l3hash on its variables v (rh, rl, t are written before read)
l3hash_stmt(pc, v) ==
    CASE \* fully reduce (p1,p2)+(len,0) mod p127
         pc = 1 -> [v EXCEPT !.t = Shr64(v.p1, 63)]
      [] pc = 2 -> [v EXCEPT !.p1 = And64(v.p1, m63)]
      [] pc = 3 -> LET s == ADD128(v.p1, v.p2, v.len, v.t)
                   IN  [v EXCEPT !.p1 = s[1], !.p2 = s[2]]
      [] pc = 4 -> [v EXCEPT !.t = Add64(Bool64(Lt64(m63, v.p1)),
                                         Bool64(v.p1 = m63 /\ v.p2 = m64))]
      [] pc = 5 -> LET s == ADD128(v.p1, v.p2, Zero64, v.t)
                   IN  [v EXCEPT !.p1 = s[1], !.p2 = s[2]]
      [] pc = 6 -> [v EXCEPT !.p1 = And64(v.p1, m63)]
         \* compute (p1,p2)/(2^64-2^32) and (p1,p2)%(2^64-2^32)
      [] pc = 7 -> [v EXCEPT !.t = Add64(v.p1, Shr64(v.p2, 32))]
      [] pc = 8 -> [v EXCEPT !.t = Add64(v.t, Shr64(v.t, 32))]
      [] pc = 9 -> [v EXCEPT !.t = Add64(v.t, Bool64(Lt64(cfffffffe, Low32(v.t))))]
      [] pc = 10 -> [v EXCEPT !.p1 = Add64(v.p1, Shr64(v.t, 32))]
      [] pc = 11 -> [v EXCEPT !.p2 = Add64(v.p2, Shl64(v.p1, 32))]
         \* compute (p1+k1)%p64 and (p2+k2)%p64
      [] pc = 12 -> [v EXCEPT !.p1 = Add64(v.p1, v.k1)]
      [] pc = 13 -> [v EXCEPT !.p1 = Add64(v.p1, Neg257(Lt64(v.p1, v.k1)))]
      [] pc = 14 -> [v EXCEPT !.p2 = Add64(v.p2, v.k2)]
      [] pc = 15 -> [v EXCEPT !.p2 = Add64(v.p2, Neg257(Lt64(v.p2, v.k2)))]
         \* compute (p1+k1)*(p2+k2)%p64
      [] pc = 16 -> LET s == MUL64(v.p1, v.p2)
                    IN  [v EXCEPT !.rh = s[1], !.rl = s[2]]
      [] pc = 17 -> [v EXCEPT !.t = Shr64(v.rh, 56)]
      [] pc = 18 -> LET s == ADD128(v.t, v.rl, Zero64, v.rh)
                    IN  [v EXCEPT !.t = s[1], !.rl = s[2]]
      [] pc = 19 -> [v EXCEPT !.rh = Shl64(v.rh, 8)]
      [] pc = 20 -> LET s == ADD128(v.t, v.rl, Zero64, v.rh)
                    IN  [v EXCEPT !.t = s[1], !.rl = s[2]]
      [] pc = 21 -> [v EXCEPT !.t = Add64(v.t, Shl64(v.t, 8))]
      [] pc = 22 -> [v EXCEPT !.rl = Add64(v.rl, v.t)]
      [] pc = 23 -> [v EXCEPT !.rl = Add64(v.rl, Neg257(Lt64(v.rl, v.t)))]
      [] pc = 24 -> [v EXCEPT !.rl = Add64(v.rl, Neg257(Lt64(Add64(p64, m64), v.rl)))]

RECURSIVE l3hash_run(_, _, _)
\* the statements lo .. hi of l3hash, in order
l3hash_run(lo, hi, v) ==
    CASE Ev(v) ->
        IF lo = hi THEN l3hash_stmt(lo, v)
        ELSE l3hash_run((lo + hi) \div 2 + 1, hi, l3hash_run(lo, (lo + hi) \div 2, v))

\* A faulty l3hash that returns rl without its last conditional + 257
l3hash_unreduced(p1, p2, k1, k2, len) ==
    l3hash_run(1, 23, [p1 |-> p1, p2 |-> p2, k1 |-> k1, k2 |-> k2, len |-> len,
                       rh |-> Zero64, rl |-> Zero64, t |-> Zero64]).rl

\* uint64_t l3hash(p1, p2, k1, k2, len): return rl
l3hash(p1, p2, k1, k2, len) ==
    l3hash_run(1, 24, [p1 |-> p1, p2 |-> p2, k1 |-> k1, k2 |-> k2, len |-> len,
                   rh |-> Zero64, rl |-> Zero64, t |-> Zero64]).rl

(***************************************************************************)
(* State                                                                   *)
(***************************************************************************)
VARIABLES
    UVMAC_TAG_LEN,            \* build parameter, 64 or 128 (uvmaclib.h), fixed per build
    ctx,                      \* the uvmax_ctx_t of the caller
    keyed,                    \* uvmac_set_key has returned on ctx
    consumable_key_position,  \* the caller's pad-key cursor (uint64_t)
    res,                      \* value returned by the last vhash / uvmac
    tagl,                     \* *tagl as last written
    halted,                   \* the process was ended by assert(0)
    absorbed,                 \* history: blocks given to vhash_update since the last reset
    last,                     \* history: the last call, its inputs and the state it found
    other,                    \* a second context of the same process and what its owner
                              \* holds (cursor, result, history), while the first is at work
    tool                      \* the command-line tool: where its main is, the input file,
                              \* its calls so far and what it wrote to the .tag file

vars == << UVMAC_TAG_LEN, ctx, keyed, consumable_key_position, res, tagl, halted,
           absorbed, last, other, tool >>

(***************************************************************************)
(* The context and the orchestrator                                        *)
(***************************************************************************)

\* sizeof(ctx->nhkey)/8, sizeof(ctx->polykey)/8 (= l3key = polytmp)
NhKeyWords   == (UVMAC_NHBYTES \div 8) + 2 * (UVMAC_TAG_LEN \div 64 - 1)
PolyKeyWords == (2 * UVMAC_TAG_LEN) \div 64

\* A faulty vhash_abort that clears the flag and leaves polytmp as it is
vhash_abort_flag_only(c) == [c EXCEPT !.first_block_processed = 0]

\* A faulty vhash_abort that copies the other way: polykey = polytmp
vhash_abort_reversed(c) ==
    [c EXCEPT !.polykey = c.polytmp, !.first_block_processed = 0]

\* A faulty vhash_abort that restores polytmp and leaves the flag as it is
vhash_abort_keep_flag(c) ==
    [c EXCEPT !.polytmp = c.polykey]

\* void vhash_abort(uvmax_ctx_t *ctx)
vhash_abort(c) ==
    [c EXCEPT !.polytmp = IF UVMAC_TAG_LEN = 128
                          THEN << c.polykey[1], c.polykey[2], c.polykey[3], c.polykey[4] >>
                          ELSE << c.polykey[1], c.polykey[2] >>,
              !.first_block_processed = 0]

\* A faulty NH step that does not mask rh to 62 bits
Mask62_none(r) == r

\* rh &= m62 (and rh2 &= m62) on an NH result <<rh, rl>> or <<rh, rl, rh2, rl2>>
Mask62(r) ==
    IF Len(r) = 2 THEN << And64(r[1], m62), r[2] >>
    ELSE << And64(r[1], m62), r[2], And64(r[3], m62), r[4] >>

\* ADD128(ch,cl,rh,rl) (and ADD128(ch2,cl2,rh2,rl2)): a += b on every tag half
add_halves(a, b) ==
    CASE Ev(<< a, b >>) ->
        IF UVMAC_TAG_LEN = 128
        THEN ADD128(a[1], a[2], b[1], b[2]) \o ADD128(a[3], a[4], b[3], b[4])
        ELSE ADD128(a[1], a[2], b[1], b[2])

\* poly_step(ch,cl,pkh,pkl,rh,rl) (and the same on ch2,cl2,pkh2,pkl2,rh2,rl2)
poly_halves(a, pk, r) ==
    CASE Ev(<< a, r >>) ->
        IF UVMAC_TAG_LEN = 128
        THEN poly_step(a[1], a[2], pk[1], pk[2], r[1], r[2])
                 \o poly_step(a[3], a[4], pk[3], pk[4], r[3], r[4])
        ELSE poly_step(a[1], a[2], pk[1], pk[2], r[1], r[2])

\* NH of the full block at word offset mp of m, masked to 62 bits
nh_full(m, mp, c) ==
    Mask62(IF UVMAC_TAG_LEN = 64
           THEN nh_vhash_nhbytes(m, mp, c.nhkey, 0, UVMAC_NHBYTES \div 8)
           ELSE nh_vhash_nhbytes_2(m, mp, c.nhkey, 0, UVMAC_NHBYTES \div 8))

\* A faulty tail NH that rounds the number of 16-byte units down
nh_rem_floor(m, mp, c, remaining) ==
    Mask62(IF UVMAC_TAG_LEN = 64
           THEN nh_16(m, mp, c.nhkey, 0, 2 * (remaining \div 16))
           ELSE nh_16_2(m, mp, c.nhkey, 0, 2 * (remaining \div 16)))

\* NH of the remaining bytes at word offset mp of m, masked to 62 bits
nh_rem(m, mp, c, remaining) ==
    Mask62(IF UVMAC_TAG_LEN = 64
           THEN nh_16(m, mp, c.nhkey, 0, 2 * ((remaining + 15) \div 16))
           ELSE nh_16_2(m, mp, c.nhkey, 0, 2 * ((remaining + 15) \div 16)))

RECURSIVE update_loop(_, _, _, _, _)
\* while (i--) { NH; poly_step; mptr += UVMAC_NHBYTES/8 } of vhash_update
update_loop(m, mp, i, ch, c) ==
    CASE Ev(ch) ->
        IF i = 0 THEN ch
        ELSE update_loop(m, mp + UVMAC_NHBYTES \div 8, i - 1,
                         poly_halves(ch, c.polykey, nh_full(m, mp, c)), c)

\* A faulty vhash_update that never sets first_block_processed
vhash_update_no_flag(m, mbytes, c) ==
    IF c.first_block_processed = 0
    THEN [c EXCEPT !.polytmp = update_loop(m, UVMAC_NHBYTES \div 8,
                                           mbytes \div UVMAC_NHBYTES - 1,
                                           add_halves(c.polytmp, nh_full(m, 0, c)), c)]
    ELSE [c EXCEPT !.polytmp = update_loop(m, 0, mbytes \div UVMAC_NHBYTES, c.polytmp, c)]

\* A faulty vhash_update that multiplies the first block in like every other block
vhash_update_all_poly(m, mbytes, c) ==
    [c EXCEPT !.first_block_processed = 1,
              !.polytmp = update_loop(m, 0, mbytes \div UVMAC_NHBYTES, c.polytmp, c)]

\* A faulty vhash_update that adds the first block of every call to polytmp,
\* whatever first_block_processed says
vhash_update_first_add(m, mbytes, c) ==
    [c EXCEPT !.first_block_processed = 1,
              !.polytmp = update_loop(m, UVMAC_NHBYTES \div 8,
                                      mbytes \div UVMAC_NHBYTES - 1,
                                      add_halves(c.polytmp, nh_full(m, 0, c)), c)]

\* void vhash_update(m, mbytes, ctx), mbytes a positive multiple of UVMAC_NHBYTES
vhash_update(m, mbytes, c) ==
    CASE Ev(<< m, c >>) ->
        IF c.first_block_processed = 0
        THEN [c EXCEPT !.first_block_processed = 1,
                       !.polytmp = update_loop(m, UVMAC_NHBYTES \div 8,
                                               mbytes \div UVMAC_NHBYTES - 1,
                                               add_halves(c.polytmp, nh_full(m, 0, c)), c)]
        ELSE [c EXCEPT !.polytmp = update_loop(m, 0, mbytes \div UVMAC_NHBYTES,
                                               c.polytmp, c)]

RECURSIVE vhash_loop(_, _, _, _, _)
\* while (i--) { NH; poly_step; mptr += UVMAC_NHBYTES/8 } of vhash
vhash_loop(m, mp, i, ch, c) ==
    CASE Ev(ch) ->
        IF i = 0 THEN ch
        ELSE vhash_loop(m, mp + UVMAC_NHBYTES \div 8, i - 1,
                        poly_halves(ch, c.polykey, nh_full(m, mp, c)), c)

\* A faulty tail step that runs NH and poly_step on an empty tail too
vhash_remaining_always(m, mp, remaining, ch, c) ==
    poly_halves(ch, c.polykey, nh_rem(m, mp, c, remaining))

\* if (remaining) { NH of the tail; poly_step } of vhash, at word offset mp of m
vhash_remaining(m, mp, remaining, ch, c) ==
    CASE Ev(ch) ->
        IF remaining # 0
        THEN poly_halves(ch, c.polykey, nh_rem(m, mp, c, remaining))
        ELSE ch

\* vhash from its while loop to do_l3: i blocks at word offset mp of m, then the tail
vhash_blocks(m, mp, i, remaining, ch, c) ==
    vhash_remaining(m, mp + i * (UVMAC_NHBYTES \div 8), remaining,
                    vhash_loop(m, mp, i, ch, c), c)

\* The poly state (ch, cl[, ch2, cl2]) with which vhash arrives at do_l3
vhash_poly(m, mbytes, c) ==
    IF c.first_block_processed # 0
    THEN vhash_blocks(m, 0, mbytes \div UVMAC_NHBYTES, mbytes % UVMAC_NHBYTES, c.polytmp, c)
    ELSE IF mbytes \div UVMAC_NHBYTES # 0
    THEN vhash_blocks(m, UVMAC_NHBYTES \div 8, mbytes \div UVMAC_NHBYTES - 1,
                      mbytes % UVMAC_NHBYTES, add_halves(nh_full(m, 0, c), c.polykey), c)
    ELSE IF mbytes % UVMAC_NHBYTES # 0
    THEN add_halves(nh_rem(m, 0, c, mbytes % UVMAC_NHBYTES), c.polykey)
    ELSE c.polykey      \* Empty String

\* A faulty length for l3hash: the bits of the whole buffer of the call
vhash_len_total(mbytes) == U64(mbytes * 8)

\* remaining *= 8, as handed to l3hash
vhash_len(mbytes) == U64((mbytes % UVMAC_NHBYTES) * 8)

\* A faulty do_l3 that does not call vhash_abort
vhash_l3_no_reset(p, mbytes, tl, c) ==
    CASE Ev(p) ->
        [ret  |-> l3hash(p[1], p[2], c.l3key[1], c.l3key[2], vhash_len(mbytes)),
         tagl |-> IF UVMAC_TAG_LEN = 128
                  THEN l3hash(p[3], p[4], c.l3key[3], c.l3key[4], vhash_len(mbytes))
                  ELSE tl,
         ctx  |-> c]

\* do_l3 of vhash on the poly state p: vhash_abort, then l3hash of every tag half
vhash_l3(p, mbytes, tl, c) ==
    CASE Ev(p) ->
        [ret  |-> l3hash(p[1], p[2], c.l3key[1], c.l3key[2], vhash_len(mbytes)),
         tagl |-> IF UVMAC_TAG_LEN = 128
                  THEN l3hash(p[3], p[4], c.l3key[3], c.l3key[4], vhash_len(mbytes))
                  ELSE tl,
         ctx  |-> vhash_abort(c)]

\* uint64_t vhash(m, mbytes, tagl, ctx): the value returned, *tagl (written only
\* when UVMAC_TAG_LEN = 128; tl is what it held) and the context left behind
vhash(m, mbytes, tl, c) ==
    CASE Ev(<< m, c >>) -> vhash_l3(vhash_poly(m, mbytes, c), mbytes, tl, c)

(***************************************************************************)
(* Consumable key and tag                                                  *)
(***************************************************************************)

\* the index of a uint64_t known to be below 2^24
ToNat(w) == w[1] + 256 * w[2] + 65536 * w[3]

\* buf holds a whole 64-bit word at the 64-bit word index idx
InBuffer(buf, idx) ==
    /\ \A j \in 4..8 : idx[j] = 0
    /\ ToNat(idx) < Len(buf) \div 8

\* A faulty get64bitsOfKey that never looks at key_length
get64bitsOfKey_unchecked(key_length, key_position) ==
    [assert |-> FALSE,
     out    |-> key_position,
     pos    |-> Add64(key_position, One64)]

\* A faulty get64bitsOfKey that lets one word past key_length be taken
get64bitsOfKey_late(key_length, key_position) ==
    [assert |-> Lt64(key_length, key_position),
     out    |-> key_position,
     pos    |-> Add64(key_position, One64)]

\* uint64_t* get64bitsOfKey(consumable_key, key_length, key_position):
\* whether assert(0) is hit, the word index of the pointer returned (consumable_key +
\* *key_position, modulo 2^64 words) and the new *key_position
get64bitsOfKey(key_length, key_position) ==
    [assert |-> Lt64(key_length, Add64(key_position, One64)),
     out    |-> key_position,
     pos    |-> Add64(key_position, One64)]

\* get64BE(out_p) for the pointer of get64bitsOfKey into the buffer key; a pointer
\* outside the buffer reads whatever lies there: oob
ReadKeyWord(key, out, oob) ==
    IF InBuffer(key, out) THEN get64BE(key, 8 * ToNat(out)) ELSE oob

RECURSIVE BitXor(_, _)
BitXor(x, y) ==
    IF x = 0 /\ y = 0 THEN 0
    ELSE ((x + y) % 2) + 2 * BitXor(x \div 2, y \div 2)

\* uint64_t a ^ b
Xor64(a, b) ==
    << BitXor(a[1], b[1]), BitXor(a[2], b[2]), BitXor(a[3], b[3]), BitXor(a[4], b[4]),
       BitXor(a[5], b[5]), BitXor(a[6], b[6]), BitXor(a[7], b[7]), BitXor(a[8], b[8]) >>

\* A faulty tag combiner that xors the pad words in
uvmac_tag_xor(h, g1, g2, tl, key, oob1, oob2) ==
    IF UVMAC_TAG_LEN = 64
    THEN [assert |-> 0,
          ret    |-> Xor64(ReadKeyWord(key, g1.out, oob1), h.ret),
          tagl   |-> tl, ctx |-> h.ctx, pos |-> g1.pos, gets |-> << g1 >>]
    ELSE IF g2.assert
    THEN [assert |-> 2, ret |-> << >>, tagl |-> tl, ctx |-> h.ctx,
          pos |-> g1.pos, gets |-> << g1, g2 >>]
    ELSE [assert |-> 0,
          ret    |-> Xor64(h.ret, ReadKeyWord(key, g1.out, oob1)),
          tagl   |-> Xor64(h.tagl, ReadKeyWord(key, g2.out, oob2)),
          ctx    |-> h.ctx, pos |-> g2.pos, gets |-> << g1, g2 >>]

\* uvmac once its first get64bitsOfKey (g1) has returned: h is what vhash returned,
\* g2 the second get64bitsOfKey (UVMAC_TAG_LEN = 128 only)
uvmac_tag(h, g1, g2, tl, key, oob1, oob2) ==
    CASE Ev(h) ->
        IF UVMAC_TAG_LEN = 64
        THEN [assert |-> 0,
              ret    |-> Add64(ReadKeyWord(key, g1.out, oob1), h.ret),   \* return p + h
              tagl   |-> tl, ctx |-> h.ctx, pos |-> g1.pos, gets |-> << g1 >>]
        ELSE IF g2.assert
        THEN [assert |-> 2, ret |-> << >>, tagl |-> tl, ctx |-> h.ctx,
              pos |-> g1.pos, gets |-> << g1, g2 >>]
        ELSE [assert |-> 0,
              ret    |-> Add64(h.ret, ReadKeyWord(key, g1.out, oob1)),   \* th += get64BE(out_p)
              tagl   |-> Add64(h.tagl, ReadKeyWord(key, g2.out, oob2)),  \* *tagl = tl + ...
              ctx    |-> h.ctx, pos |-> g2.pos, gets |-> << g1, g2 >>]

\* uint64_t uvmac(m, mbytes, tagl, ctx, consumable_key, consumable_key_length,
\*                consumable_key_position); oob1, oob2: what an out-of-bounds read
\* of the first, second pad word finds.
\* assert: 0 = returned, 1 = assert(0) in the first get64bitsOfKey, 2 = in the second
uvmac(m, mbytes, tl, c, key, key_length, key_position, oob1, oob2) ==
    LET g1 == get64bitsOfKey(key_length, key_position)
    IN  IF g1.assert
        THEN [assert |-> 1, ret |-> << >>, tagl |-> tl, ctx |-> c,
              pos |-> key_position, gets |-> << g1 >>]
        ELSE uvmac_tag(vhash(m, mbytes, tl, c), g1, get64bitsOfKey(key_length, g1.pos),
                       tl, key, oob1, oob2)

(***************************************************************************)
(* Key schedule                                                            *)
(***************************************************************************)

\* A faulty nhkey loop that fills the table from its end
fill_nhkey_step_reversed(user_key, key_length, st, i) ==
    IF st.assert THEN st
    ELSE LET g == get64bitsOfKey(key_length, st.pos)
         IN  IF g.assert THEN [st EXCEPT !.assert = TRUE]
             ELSE [st EXCEPT !.pos = g.pos, !.reads = Append(@, ToNat(g.out)),
                             !.ctx.nhkey[NhKeyWords - i] =
                                 ReadKeyWord(user_key, g.out, Zero64)]

\* ctx->nhkey[i] = get64BE(get64bitsOfKey(...)), unless an assert(0) ended the call
fill_nhkey_step(user_key, key_length, st, i) ==
    IF st.assert THEN st
    ELSE LET g == get64bitsOfKey(key_length, st.pos)
         IN  IF g.assert THEN [st EXCEPT !.assert = TRUE]
             ELSE [st EXCEPT !.pos = g.pos, !.reads = Append(@, ToNat(g.out)),
                             !.ctx.nhkey[i + 1] = ReadKeyWord(user_key, g.out, Zero64)]

RECURSIVE fill_nhkey(_, _, _, _, _)
\* for (i = 0; i < sizeof(ctx->nhkey)/8; i++): the iterations lo .. hi, in order
fill_nhkey(user_key, key_length, st, lo, hi) ==
    CASE Ev(st) ->
        IF lo = hi THEN fill_nhkey_step(user_key, key_length, st, lo)
        ELSE fill_nhkey(user_key, key_length,
                        fill_nhkey(user_key, key_length, st, lo, (lo + hi) \div 2),
                        (lo + hi) \div 2 + 1, hi)

RECURSIVE fill_polykey(_, _, _, _)
\* ctx->polytmp[i] = ctx->polykey[i] = get64BE(out) & mpoly
fill_polykey(user_key, key_length, st, i) ==
    IF st.assert \/ ~(i < PolyKeyWords) THEN st
    ELSE LET g == get64bitsOfKey(key_length, st.pos)
             w == And64(ReadKeyWord(user_key, g.out, Zero64), mpoly)
         IN  IF g.assert THEN [st EXCEPT !.assert = TRUE]
             ELSE fill_polykey(user_key, key_length,
                               [st EXCEPT !.pos = g.pos, !.reads = Append(@, ToNat(g.out)),
                                          !.ctx.polykey[i + 1] = w,
                                          !.ctx.polytmp[i + 1] = w],
                               i + 1)

RECURSIVE fill_l3key_no_reject(_, _, _, _)
\* A faulty l3key loop that keeps every word it draws
fill_l3key_no_reject(user_key, key_length, st, i) ==
    IF st.assert \/ ~(i < PolyKeyWords) THEN st
    ELSE LET g == get64bitsOfKey(key_length, st.pos)
         IN  IF g.assert THEN [st EXCEPT !.assert = TRUE]
             ELSE fill_l3key_no_reject(user_key, key_length,
                      [st EXCEPT !.pos = g.pos, !.reads = Append(@, ToNat(g.out)),
                                 !.ctx.l3key[i + 1] = ReadKeyWord(user_key, g.out, Zero64)],
                      i + 1)

RECURSIVE fill_l3key(_, _, _, _)
\* do { ctx->l3key[i] = get64BE(out) } while (ctx->l3key[i] >= p64)
fill_l3key(user_key, key_length, st, i) ==
    IF st.assert \/ ~(i < PolyKeyWords) THEN st
    ELSE LET g  == get64bitsOfKey(key_length, st.pos)
             w  == ReadKeyWord(user_key, g.out, Zero64)
             s1 == [st EXCEPT !.pos = g.pos, !.reads = Append(@, ToNat(g.out)),
                              !.ctx.l3key[i + 1] = w]
         IN  IF g.assert THEN [st EXCEPT !.assert = TRUE]
             ELSE IF ~Lt64(w, p64) THEN fill_l3key(user_key, key_length, s1, i)
             ELSE fill_l3key(user_key, key_length, s1, i + 1)

\* A faulty uvmac_set_key that leaves first_block_processed as it finds it
uvmac_set_key_keep_flag(user_key, key_length, c) ==
    LET s3 == fill_l3key(user_key, key_length,
                  fill_polykey(user_key, key_length,
                      fill_nhkey(user_key, key_length,
                                 [assert |-> FALSE, pos |-> Zero64, ctx |-> c,
                                  reads |-> << >>],
                                 0, NhKeyWords - 1),
                      0),
                  0)
    IN  [assert |-> s3.assert, reads |-> s3.reads, ctx |-> s3.ctx]

\* void uvmac_set_key(user_key, key_length, ctx): whether assert(0) ended it, ctx, and
\* the word indices of user_key it read with get64BE, in the order of the reads
uvmac_set_key(user_key, key_length, c) ==
    LET s0 == [assert |-> FALSE, pos |-> Zero64, ctx |-> c, reads |-> << >>]
        s1 == fill_nhkey(user_key, key_length, s0, 0, NhKeyWords - 1)
        s2 == fill_polykey(user_key, key_length, s1, 0)
        s3 == fill_l3key(user_key, key_length, s2, 0)
    IN  [assert |-> s3.assert,
         reads  |-> s3.reads,
         ctx    |-> IF s3.assert THEN s3.ctx
                    ELSE [s3.ctx EXCEPT !.first_block_processed = 0]]

(***************************************************************************)
(* Inputs of the model                                                     *)
(***************************************************************************)
MaxAbsorbed   == 2   \* blocks given to vhash_update between two resets
MaxCallBlocks == 1   \* full blocks in the buffer of one vhash / uvmac call
StreamLen     == 2   \* 64-bit words in the caller's pad-key stream

\* n copies of the sequence s in a row
Rep(s, n) == [i \in 1..(n * Len(s)) |-> s[((i - 1) % Len(s)) + 1]]

\* the n bytes (a * i + b) % 256, i = 1 .. n
GenBytes(n, a, b) == [i \in 1..n |-> (a * i + b) % 256]

\* user keys: the test key "abcdefgh"... (26 words), and keys with all words different
KeyA == Rep(<< 97, 98, 99, 100, 101, 102, 103, 104 >>, 26)
KeyB == GenBytes(208, 37, 11)
\* KeyB, one word longer, with word 18 = p64, the least word that uvmac_set_key
\* rejects as an l3 key, and word 19 = p64 - 1. With 64-bit tags the l3 keys begin at
\* word 18 (one candidate is rejected), with 128-bit tags at word 22 (none is).
KeyC ==
    [i \in 1..216 |->
        CASE (i - 1) \div 8 = 18 -> Reverse(p64)[((i - 1) % 8) + 1]
          [] (i - 1) \div 8 = 19 -> << 255, 255, 255, 255, 255, 255, 254, 254 >>[((i - 1) % 8) + 1]
          [] i > Len(KeyB) -> (37 * i + 11) % 256
          [] OTHER -> KeyB[i]]
UserKeys == << KeyA, KeyC >>

\* UVMAC_KEY_LEN, in units of 64 bits
UVMAC_KEY_LEN ==
    (UVMAC_NHBYTES \div 8) + 2 * (UVMAC_TAG_LEN \div 64 - 1) + (4 * UVMAC_TAG_LEN) \div 64

\* key_length given to uvmac_set_key: UVMAC_KEY_LEN less one of these, and no more
\* than the words user_key holds
KeyShort == {-1, 0, 1}

\* message blocks of UVMAC_NHBYTES bytes
BlockA == SubSeq(Rep(<< 97, 98, 99 >>, 43), 1, UVMAC_NHBYTES)
BlockB == Rep(<< 255, 254, 253, 252, 251, 250, 249, 248 >>, UVMAC_NHBYTES \div 8)
Blocks == << BlockA, BlockB >>
BlockIds == 1..2

\* byte lengths of the message tail of a vhash / uvmac call
TailLens == {0, 19, 48}

\* the blocks and the bytes after them (mbytes % UVMAC_NHBYTES) in the buffer of a
\* vhash_update call that breaks the rule of uvmaclib.h: mbytes = 0, and a block
\* followed by 19 bytes
BadUpdates == { << << >>, 0 >>, << << 1 >>, 19 >> }

\* the sequences of at most n block ids
BlockSeqs(n) == UNION { [1..k -> BlockIds] : k \in 0..n }

RECURSIVE ConcatBlocks(_)
ConcatBlocks(ids) ==
    IF ids = << >> THEN << >> ELSE Blocks[Head(ids)] \o ConcatBlocks(Tail(ids))

\* The buffer m a caller passes for the blocks ids followed by r tail bytes: the
\* message, then bytes of value fill up to the next 16-byte boundary.
MsgBuf(ids, r, fill) ==
    ConcatBlocks(ids) \o SubSeq(Rep(<< 120, 121, 122 >>, 43), 1, r)
                      \o Rep(<< fill >>, (16 - (r % 16)) % 16)

MsgBytes(ids, r) == UVMAC_NHBYTES * Len(ids) + r

\* what the caller's buffer holds after the message, up to the 16-byte boundary:
\* zeroes, as uvmaclib.h asks, or something else
PadFills == {0, 255}

\* the caller's pad-key stream: StreamLen words, the first 0xffffffffffffffff
consumable_key == Rep(<< 255 >>, 8) \o GenBytes(8 * (StreamLen - 1), 91, 5)
consumable_key_length == U64(StreamLen)

\* what a read outside the pad-key stream may find
OobWords == { Zero64, << 8, 7, 6, 5, 4, 3, 2, 1 >> }

\* values the caller may store in its cursor besides those uvmac leaves there
CallerPositions == { Zero64, m64 }

\* the record of a call: its name, the blocks given to vhash_update since the last
\* reset when it was made (absorbed0), the context (ctx0, fbp0 its
\* first_block_processed) and the cursor (pos0) it found, the blocks and tail bytes of
\* its message, its get64bitsOfKey calls, the out-of-bounds words, and how it ended
NoCall == [op |-> "none", absorbed0 |-> << >>, ctx0 |-> << >>, fbp0 |-> 0,
           blocks |-> << >>, r |-> 0, pos0 |-> Zero64, gets |-> << >>, oob |-> << >>,
           assert |-> 0, key |-> 0, key_length |-> 0, reads |-> << >>, fill |-> 0]

\* no second context; with one, pair is TRUE and the fields hold what the variables
\* ctx, keyed, consumable_key_position, res, tagl, absorbed and last hold for the first
NoOther == [pair |-> FALSE, ctx |-> << >>, keyed |-> FALSE, pos |-> Zero64,
            res |-> << >>, tagl |-> << >>, absorbed |-> << >>, last |-> NoCall]

\* the calls are not made by the command-line tool; in the tool, pc is where its main
\* is, fileSize the bytes of the input file, pos the bytes read so far, calls the
\* library calls of the chunk loop in order, ret what the last uvmac returned and
\* written the text put into the .tag file
NoTool == [pc |-> "off", fileSize |-> 0, pos |-> 0, calls |-> << >>, ret |-> << >>,
           written |-> << >>]

(***************************************************************************)
(* Initial state: a context nobody has keyed yet                           *)
(***************************************************************************)
InitFirst ==
    /\ UVMAC_TAG_LEN \in {64, 128}
    /\ \E w \in { Zero64, m64 }, f \in {0, 1} :
         ctx = [nhkey   |-> Rep(<< w >>, NhKeyWords),
                polykey |-> Rep(<< w >>, PolyKeyWords),
                l3key   |-> Rep(<< w >>, PolyKeyWords),
                polytmp |-> Rep(<< w >>, PolyKeyWords),
                first_block_processed |-> f]
    /\ keyed = FALSE
    /\ consumable_key_position = Zero64
    /\ res = << >>
    /\ tagl = << >>
    /\ halted = FALSE
    /\ absorbed = << >>
    /\ last = NoCall
    /\ tool = NoTool

Init == InitFirst /\ other = NoOther

\* two contexts of one process, each with its own cursor, both zeroed and not keyed
InitPair ==
    /\ InitFirst
    /\ ctx.first_block_processed = 0
    /\ ctx.polytmp[1] = Zero64
    /\ other = [NoOther EXCEPT !.pair = TRUE, !.ctx = ctx]

(***************************************************************************)
(* Operations                                                              *)
(***************************************************************************)

\* the caller has no result of vhash / uvmac in hand, and its process runs
Idle == ~halted /\ res = << >>

\* get64bitsOfKey at the cursor pos returns a pointer outside consumable_key
ReadsOutside(pos) ==
    /\ ~get64bitsOfKey(consumable_key_length, pos).assert
    /\ ~InBuffer(consumable_key, pos)

\* uvmac_set_key(UserKeys[k], UVMAC_KEY_LEN - d, &ctx)
SetKey(k, d) ==
    /\ Idle
    /\ 8 * (UVMAC_KEY_LEN - d) <= Len(UserKeys[k])
    /\ \E s \in { uvmac_set_key(UserKeys[k], U64(UVMAC_KEY_LEN - d), ctx) } :
           /\ ctx' = s.ctx
           /\ halted' = s.assert
           /\ keyed' = ~s.assert
           /\ last' = [NoCall EXCEPT !.op = "uvmac_set_key",
                                     !.fbp0 = ctx.first_block_processed,
                                     !.key = k, !.key_length = UVMAC_KEY_LEN - d,
                                     !.reads = s.reads,
                                     !.assert = IF s.assert THEN 1 ELSE 0]
    /\ absorbed' = << >>
    /\ UNCHANGED << tool, other, UVMAC_TAG_LEN, consumable_key_position, res, tagl >>

\* vhash_update(m, UVMAC_NHBYTES * Len(ids), &ctx), m holding the blocks ids
Update(ids) ==
    /\ Idle /\ keyed
    /\ ids # << >>
    /\ Len(absorbed) + Len(ids) <= MaxAbsorbed
    /\ ctx' = vhash_update(ConcatBlocks(ids), MsgBytes(ids, 0), ctx)
    /\ absorbed' = absorbed \o ids
    /\ last' = [NoCall EXCEPT !.op = "vhash_update", !.absorbed0 = absorbed, !.ctx0 = ctx,
                              !.fbp0 = ctx.first_block_processed, !.blocks = ids]
    /\ UNCHANGED << tool, other, UVMAC_TAG_LEN, keyed, consumable_key_position, res, tagl, halted >>

\* vhash_update(m, mbytes, &ctx) with mbytes = UVMAC_NHBYTES * Len(ids) + r that is
\* zero or no multiple of UVMAC_NHBYTES. The code tests nothing: i = mbytes /
\* UVMAC_NHBYTES blocks are absorbed and the r bytes after them are not looked at.
\* With i = 0 in a context whose first_block_processed is 0, the first-block branch
\* reads UVMAC_NHBYTES bytes of a shorter buffer and leaves i = -1, and while (i--)
\* reads on far past the buffer: the process ends in a memory fault (assert 3),
\* before polytmp is stored, the store of the flag done (f = 1) or not (f = 0).
UpdateBadLength(ids, r) ==
    /\ Idle /\ keyed
    /\ ids = << >> \/ r # 0
    /\ Len(absorbed) + Len(ids) <= MaxAbsorbed
    /\ IF ids = << >> /\ ctx.first_block_processed = 0
       THEN /\ \E f \in {0, 1} : ctx' = [ctx EXCEPT !.first_block_processed = f]
            /\ halted' = TRUE
            /\ absorbed' = absorbed
       ELSE /\ ctx' = vhash_update(MsgBuf(ids, r, 0), MsgBytes(ids, r), ctx)
            /\ halted' = halted
            /\ absorbed' = absorbed \o ids
    /\ last' = [NoCall EXCEPT !.op = "vhash_update_badlen", !.absorbed0 = absorbed,
                              !.ctx0 = ctx, !.fbp0 = ctx.first_block_processed,
                              !.blocks = ids, !.r = r,
                              !.assert = IF ids = << >> /\ ctx.first_block_processed = 0
                                         THEN 3 ELSE 0]
    /\ UNCHANGED << tool, other, UVMAC_TAG_LEN, keyed, consumable_key_position, res, tagl >>

\* res = vhash(m, mbytes, &tagl, &ctx), m holding the blocks ids, r tail bytes, and
\* bytes of value fill from the end of the message to the next 16-byte boundary
Vhash(ids, r, fill) ==
    /\ Idle /\ keyed
    /\ fill # 0 => r % 16 # 0
    /\ \E h \in { vhash(MsgBuf(ids, r, fill), MsgBytes(ids, r), << >>, ctx) } :
           /\ ctx' = h.ctx
           /\ res' = h.ret
           /\ tagl' = h.tagl
    /\ absorbed' = << >>
    /\ last' = [NoCall EXCEPT !.op = "vhash", !.absorbed0 = absorbed, !.ctx0 = ctx,
                              !.fbp0 = ctx.first_block_processed, !.blocks = ids,
                              !.r = r, !.fill = fill, !.pos0 = consumable_key_position]
    /\ UNCHANGED << tool, other, UVMAC_TAG_LEN, keyed, consumable_key_position, halted >>

\* res = uvmac(m, mbytes, &tagl, &ctx, consumable_key, consumable_key_length,
\*             &consumable_key_position); oob1, oob2 are chosen only for the words
\* at the cursor (and, for 128-bit tags, after it) that lie outside consumable_key
Uvmac(ids, r, oob1, oob2) ==
    /\ Idle /\ keyed
    /\ oob1 # Zero64 => ReadsOutside(consumable_key_position)
    /\ oob2 # Zero64 =>
           /\ UVMAC_TAG_LEN = 128
           /\ ~get64bitsOfKey(consumable_key_length, consumable_key_position).assert
           /\ ReadsOutside(Add64(consumable_key_position, One64))
    /\ \E u \in { uvmac(MsgBuf(ids, r, 0), MsgBytes(ids, r), << >>, ctx,
                       consumable_key, consumable_key_length, consumable_key_position,
                       oob1, oob2) } :
           /\ ctx' = u.ctx
           /\ res' = u.ret
           /\ tagl' = u.tagl
           /\ consumable_key_position' = u.pos
           /\ halted' = (u.assert # 0)
           /\ absorbed' = IF u.assert = 1 THEN absorbed ELSE << >>
           /\ last' = [NoCall EXCEPT !.op = "uvmac", !.absorbed0 = absorbed, !.ctx0 = ctx,
                                     !.fbp0 = ctx.first_block_processed, !.blocks = ids,
                                     !.r = r, !.pos0 = consumable_key_position,
                                     !.gets = u.gets, !.oob = << oob1, oob2 >>,
                                     !.assert = u.assert]
    /\ UNCHANGED << tool, other, UVMAC_TAG_LEN, keyed >>

\* vhash_abort(&ctx)
Abort ==
    /\ Idle /\ keyed
    /\ ctx' = vhash_abort(ctx)
    /\ absorbed' = << >>
    /\ last' = [NoCall EXCEPT !.op = "vhash_abort", !.fbp0 = ctx.first_block_processed]
    /\ UNCHANGED << tool, other, UVMAC_TAG_LEN, keyed, consumable_key_position, res, tagl, halted >>

\* the caller stores p in its cursor (uvmac.c's speed test: running_key_position = 0)
CallerSetsPosition(p) ==
    /\ Idle /\ keyed
    /\ consumable_key_position # p
    /\ consumable_key_position' = p
    /\ UNCHANGED << tool, other, UVMAC_TAG_LEN, ctx, keyed, res, tagl, halted, absorbed, last >>

\* the caller has used the result of vhash / uvmac: nothing of the call is kept
\* but what it left in ctx and in the cursor
TakeTag ==
    /\ ~halted /\ res # << >>
    /\ res' = << >>
    /\ tagl' = << >>
    /\ last' = NoCall
    /\ UNCHANGED << tool, other, UVMAC_TAG_LEN, ctx, keyed, consumable_key_position, halted, absorbed >>

Next ==
    \/ \E k \in DOMAIN UserKeys, d \in KeyShort : SetKey(k, d)
    \/ \E ids \in BlockSeqs(MaxCallBlocks) : Update(ids)
    \/ \E b \in BadUpdates : UpdateBadLength(b[1], b[2])
    \/ \E ids \in BlockSeqs(MaxCallBlocks), r \in TailLens, fill \in PadFills :
         Vhash(ids, r, fill)
    \/ \E ids \in BlockSeqs(MaxCallBlocks), r \in TailLens, o1, o2 \in OobWords :
         Uvmac(ids, r, o1, o2)
    \/ Abort
    \/ \E p \in CallerPositions : CallerSetsPosition(p)
    \/ TakeTag

Spec == Init /\ [][Next]_vars

(***************************************************************************)
(* Two contexts in one process                                             *)
(***************************************************************************)

\* the turn passes to the owner of the other context: the variables of the first
\* context now stand for it. assert(0) ends the process, so halted is of both.
Switch ==
    /\ other.pair
    /\ ctx' = other.ctx
    /\ keyed' = other.keyed
    /\ consumable_key_position' = other.pos
    /\ res' = other.res
    /\ tagl' = other.tagl
    /\ absorbed' = other.absorbed
    /\ last' = other.last
    /\ other' = [pair |-> TRUE, ctx |-> ctx, keyed |-> keyed,
                 pos |-> consumable_key_position, res |-> res, tagl |-> tagl,
                 absorbed |-> absorbed, last |-> last]
    /\ UNCHANGED << tool, UVMAC_TAG_LEN, halted >>

\* the calls of the two owners in any order: uvmac_set_key with the test key and
\* UVMAC_KEY_LEN or one word less, vhash_update of a block, uvmac of the empty message
NextPair ==
    \/ \E d \in {0, 1} : SetKey(1, d)
    \/ Update(<< 1 >>)
    \/ Uvmac(<< >>, 0, Zero64, Zero64)
    \/ TakeTag
    \/ Switch

SpecPair == InitPair /\ [][NextPair]_vars

(***************************************************************************)
(* Claims                                                                  *)
(***************************************************************************)

\* the buffer and the byte length of the message of the last call
LastBuf   == MsgBuf(last.blocks, last.r, last.fill)
LastBytes == MsgBytes(last.blocks, last.r)

\* the last call was a uvmac that returned
UvmacReturned == last.op = "uvmac" /\ last.assert = 0

\* the context c made Fresh: same keys, polytmp = polykey, flag clear
FreshOf(c) == [c EXCEPT !.polytmp = c.polykey, !.first_block_processed = 0]

\* the full-block transition on the poly state ch, for the block at word offset mp of m:
\* an add to polykey in state Fresh, a poly_step in state Running
AbsorbBlock(running, ch, m, mp, c) ==
    IF running
    THEN poly_halves(ch, c.polykey, nh_full(m, mp, c))
    ELSE add_halves(c.polykey, nh_full(m, mp, c))

RECURSIVE AbsorbBlocks(_, _, _, _, _, _)
\* n full-block transitions in a row, from word offset mp of m
AbsorbBlocks(running, ch, m, mp, n, c) ==
    CASE Ev(ch) ->
        IF n = 0 THEN ch
        ELSE AbsorbBlocks(TRUE, AbsorbBlock(running, ch, m, mp, c), m,
                          mp + UVMAC_NHBYTES \div 8, n - 1, c)

\* the poly state after the full blocks of the last call, by these transitions
AfterBlocks ==
    AbsorbBlocks(last.fbp0 # 0, last.ctx0.polytmp, LastBuf, 0, Len(last.blocks), last.ctx0)

\* <<return value, *tagl>> of a finalize that hands the poly state p and the bit
\* length len to l3hash, with the l3 keys of c
L3(p, c, len) ==
    CASE Ev(p) ->
        << l3hash(p[1], p[2], c.l3key[1], c.l3key[2], len),
           IF UVMAC_TAG_LEN = 128
           THEN l3hash(p[3], p[4], c.l3key[3], c.l3key[4], len)
           ELSE << >> >>

\* ceil(r / 16)
Ceil16(r) == IF r % 16 = 0 THEN r \div 16 ELSE r \div 16 + 1

\* NH over the tail of the last call with the first 2 * ceil(r/16) words of the NH
\* key table, masked to 62 bits
TailNH ==
    Mask62(IF UVMAC_TAG_LEN = 64
           THEN nh_16(LastBuf, Len(last.blocks) * (UVMAC_NHBYTES \div 8),
                      last.ctx0.nhkey, 0, 2 * Ceil16(last.r))
           ELSE nh_16_2(LastBuf, Len(last.blocks) * (UVMAC_NHBYTES \div 8),
                        last.ctx0.nhkey, 0, 2 * Ceil16(last.r)))

\* stream[c]: the big-endian word at the word index c of the pad-key stream
StreamWord(c) == get64BE(consumable_key, 8 * ToNat(c))

\* C1: streaming equivalence. When uvmac(Q) returns after the blocks P were given to
\* vhash_update from a Fresh context, its tag (both halves) and the cursor it leaves
\* are those of one uvmac(P.Q) on a Fresh context with the same keys, from the same
\* cursor and with the same pad words.
C1_StreamingEquivalence ==
    (UvmacReturned /\ last.absorbed0 # << >>) =>
        LET whole == uvmac(MsgBuf(last.absorbed0 \o last.blocks, last.r, 0),
                           MsgBytes(last.absorbed0 \o last.blocks, last.r), << >>,
                           FreshOf(last.ctx0), consumable_key, consumable_key_length,
                           last.pos0, last.oob[1], last.oob[2])
        IN  /\ whole.assert = 0
            /\ whole.ret = res
            /\ whole.tagl = tagl
            /\ whole.pos = consumable_key_position

\* uvmac has returned for a split P.Q with two blocks in P, a further full block and
\* a tail in Q
C1_Witness ==
    /\ UvmacReturned
    /\ Len(last.absorbed0) = 2
    /\ last.blocks # << >>
    /\ last.r = 19

\* C2: every finalize that ran to its end (vhash, and uvmac past its vhash) leaves the
\* context Fresh, with its keys as they were: polytmp = polykey in every tag half and
\* first_block_processed clear, whatever the state and the message on entry.
C2_FinalizeLeavesFresh ==
    (last.op \in {"vhash", "uvmac"} /\ last.assert # 1) =>
        /\ ctx.polytmp = ctx.polykey
        /\ ctx.first_block_processed = 0
        /\ ctx = FreshOf(last.ctx0)

\* vhash has returned from a context that was Running, with a poly state other than
\* polykey, and a message with a tail
C2_Witness ==
    /\ last.op = "vhash"
    /\ last.fbp0 = 1
    /\ last.ctx0.polytmp # last.ctx0.polykey
    /\ last.r > 0
    /\ ctx.polytmp = ctx.polykey

\* C3: vhash_abort sets polytmp = polykey and clears first_block_processed from every
\* reachable context; abort; abort leaves what abort leaves, and set_key; abort leaves
\* what set_key leaves.
C3_AbortResets ==
    /\ last.op = "vhash_abort" =>
           (ctx.polytmp = ctx.polykey /\ ctx.first_block_processed = 0)
    /\ keyed =>
           /\ vhash_abort(ctx) = FreshOf(ctx)
           /\ vhash_abort(vhash_abort(ctx)) = vhash_abort(ctx)
    /\ (last.op = "uvmac_set_key" /\ last.assert = 0) => vhash_abort(ctx) = ctx

\* vhash_abort has returned from a context that was Running
C3_Witness ==
    /\ last.op = "vhash_abort"
    /\ last.fbp0 = 1
    /\ ctx.first_block_processed = 0

\* C4: full-block transitions. vhash_update leaves in polytmp the poly state that the
\* transitions (add to polykey in Fresh, poly_step in Running) give for its blocks,
\* and the state Running; vhash of full blocks only hashes the poly state that the
\* same transitions give.
C4_FullBlockTransitions ==
    /\ last.op = "vhash_update" =>
           /\ ctx.polytmp = AfterBlocks
           /\ ctx.first_block_processed # 0
    /\ (last.op = "vhash" /\ last.blocks # << >> /\ last.r = 0) =>
           << res, tagl >> = L3(AfterBlocks, last.ctx0, Zero64)

\* vhash_update has absorbed a block in state Running
C4_Witness ==
    /\ last.op = "vhash_update"
    /\ last.fbp0 = 1
    /\ last.blocks # << >>
    /\ ctx.first_block_processed = 1

\* C5: finalize with no tail and no full block of its own hands to l3hash polytmp
\* unchanged when a block was absorbed since the last reset, and polykey when the
\* message is empty; the result is then l3hash(polykey, l3key, 0).
C5_EmptyTail ==
    (last.op = "vhash" /\ last.r = 0 /\ last.blocks = << >>) =>
        << res, tagl >> = L3(IF last.fbp0 # 0 THEN last.ctx0.polytmp ELSE last.ctx0.polykey,
                             last.ctx0, Zero64)

\* vhash has returned for an empty buffer after blocks were absorbed
C5_Witness ==
    /\ last.op = "vhash"
    /\ last.r = 0
    /\ last.blocks = << >>
    /\ last.absorbed0 # << >>
    /\ last.fbp0 = 1

\* C6: the length finalize hands to l3hash is 8 * (byte length of the call mod
\* UVMAC_NHBYTES) for every tag half, whatever was absorbed before or in the call.
C6_LengthIsRemainderBits ==
    last.op = "vhash" =>
        << res, tagl >> = L3(vhash_poly(LastBuf, LastBytes, last.ctx0), last.ctx0,
                             U64(8 * (LastBytes % UVMAC_NHBYTES)))

\* vhash has returned for a buffer with a full block and a tail, after blocks were
\* absorbed
C6_Witness ==
    /\ last.op = "vhash"
    /\ last.absorbed0 # << >>
    /\ last.blocks # << >>
    /\ last.r > 0

\* C7: with a tail (r > 0) finalize hashes poly_step(poly state, polykey, tail NH) when
\* a full block was absorbed since the last reset, before or in the call, and
\* polykey + tail NH otherwise; the tail NH uses 2 * ceil(r/16) key words and is masked
\* to 62 bits.
C7_TailHandling ==
    (last.op = "vhash" /\ last.r > 0) =>
        << res, tagl >> =
            L3(IF last.fbp0 # 0 \/ last.blocks # << >>
               THEN poly_halves(AfterBlocks, last.ctx0.polykey, TailNH)
               ELSE add_halves(last.ctx0.polykey, TailNH),
               last.ctx0, U64(8 * last.r))

\* vhash has returned for a tail that is no multiple of 16 bytes, after a block
C7_Witness ==
    /\ last.op = "vhash"
    /\ last.r = 19
    /\ last.fbp0 = 1

\* C8: a uvmac call that returns, entered with cursor c, returns vhash + stream[c]
\* (64-bit tags), or vhash_hi + stream[c] with vhash_lo + stream[c+1] in *tagl
\* (128-bit tags), and leaves the cursor at c + UVMAC_TAG_LEN / 64.
C8_TagCombineAndCursor ==
    UvmacReturned =>
        LET h  == vhash(LastBuf, LastBytes, << >>, last.ctx0)
            c  == last.pos0
            c1 == Add64(last.pos0, One64)
        IN  /\ InBuffer(consumable_key, c)
            /\ res = Add64(h.ret, StreamWord(c))
            /\ Lt64(c, consumable_key_position)
            /\ IF UVMAC_TAG_LEN = 64
               THEN consumable_key_position = c1
               ELSE /\ InBuffer(consumable_key, c1)
                    /\ tagl = Add64(h.tagl, StreamWord(c1))
                    /\ consumable_key_position = Add64(c1, One64)

\* the pad words the last uvmac added, and what it would add from the stream key
PadWord(key, j, oob) == ReadKeyWord(key, last.gets[j].out, oob)

\* another pad-key stream, of the length of consumable_key
other_key == GenBytes(Len(consumable_key), 53, 7)

\* C9: pad-key linearity. For the key, message and cursor of a uvmac call that
\* returned, the tag under other pad words p' and the tag under the pad words p of
\* the call differ by p - p' in every tag half: tag + p' = tag' + p (mod 2^64).
C9_PadLinearity ==
    UvmacReturned =>
        \A o \in OobWords :
            LET u == uvmac(LastBuf, LastBytes, << >>, last.ctx0, other_key,
                           consumable_key_length, last.pos0, o, o)
            IN  /\ u.assert = 0
                /\ Add64(res, PadWord(other_key, 1, o))
                       = Add64(u.ret, PadWord(consumable_key, 1, last.oob[1]))
                /\ UVMAC_TAG_LEN = 128 =>
                       Add64(tagl, PadWord(other_key, 2, o))
                           = Add64(u.tagl, PadWord(consumable_key, 2, last.oob[2]))

\* uvmac has returned a 128-bit tag whose two pad words differ from those of the
\* other stream
C9_Witness ==
    /\ UvmacReturned
    /\ UVMAC_TAG_LEN = 128
    /\ InBuffer(consumable_key, last.pos0)
    /\ PadWord(other_key, 1, Zero64) # PadWord(consumable_key, 1, Zero64)
    /\ PadWord(other_key, 2, Zero64) # PadWord(consumable_key, 2, Zero64)

\* C10: every get64bitsOfKey call fails if and only if cursor >= length; one that
\* does not fail returns the word at stream[cursor], inside the stream, and adds
\* exactly 1 to the cursor.
C10_ConsumeWord ==
    \A j \in DOMAIN last.gets :
        /\ last.gets[j].assert <=> ~Lt64(last.gets[j].out, consumable_key_length)
        /\ ~last.gets[j].assert =>
               /\ InBuffer(consumable_key, last.gets[j].out)
               /\ last.gets[j].pos = Add64(last.gets[j].out, One64)
               /\ Lt64(last.gets[j].out, last.gets[j].pos)

\* C11: no partial mutation on pad-key exhaustion. Whenever uvmac ends in the assert of
\* get64bitsOfKey, be it for its first or (128-bit tags) its second pad word, polytmp
\* of every half and first_block_processed are what they were before the call.
C11_NoPartialMutation ==
    (last.op = "uvmac" /\ last.assert # 0) => ctx = last.ctx0

\* C12: errors are returned, not fatal. When uvmac_set_key runs out of user key words
\* or uvmac runs out of pad-key words, the caller's process goes on.
C12_ErrorsReturned ==
    (last.op \in {"uvmac_set_key", "uvmac"} /\ last.assert # 0) => ~halted

\* C13: InvalidUpdateLength. vhash_update called with byte length 0, or with a length
\* that is no multiple of UVMAC_NHBYTES, does not return as a success and leaves
\* polytmp and first_block_processed as they were: it absorbs no block and sets no
\* flag.
C13_InvalidUpdateLength ==
    last.op = "vhash_update_badlen" =>
        /\ last.assert # 0
        /\ ctx = last.ctx0
        /\ absorbed = last.absorbed0

\* word j (from 0) of the user key k, read as get64BE reads it
KeyWord(k, j) == get64BE(UserKeys[k], 8 * j)

\* the words of the last uvmac_set_key's key, below its key_length, that come after
\* the NH and poly key words and are accepted as l3 keys (< p64), up to word j
AcceptedUpTo(j) ==
    { i \in (NhKeyWords + PolyKeyWords)..j :
          i < last.key_length /\ Lt64(KeyWord(last.key, i), p64) }

\* C14: InsufficientKeyMaterial. uvmac_set_key fails exactly when the key_length words
\* of the user key do not fill every NH, poly and l3 slot, a rejected l3 candidate
\* counting as a consumed word: that is, when fewer than 2 * T/64 of the words after
\* the NH and poly key words are below p64. It reads no word at an index >= key_length.
C14_InsufficientKeyMaterial ==
    last.op = "uvmac_set_key" =>
        /\ (last.assert = 1) <=>
               Cardinality(AcceptedUpTo(last.key_length - 1)) < PolyKeyWords
        /\ \A i \in DOMAIN last.reads : last.reads[i] < last.key_length

\* uvmac_set_key has failed with a key of UVMAC_KEY_LEN words, every word read,
\* because an l3 candidate was rejected
C14_Witness ==
    /\ last.op = "uvmac_set_key"
    /\ last.assert = 1
    /\ last.key_length = UVMAC_KEY_LEN
    /\ Len(last.reads) = UVMAC_KEY_LEN
    /\ \E j \in DOMAIN last.reads : ~Lt64(KeyWord(last.key, last.reads[j]), p64)

\* C15: key-schedule order and length. uvmac_set_key reads the user key word after
\* word from word 0; a call that succeeds has put the first (B/8) + 2 * (T/64 - 1)
\* words in the NH key table in order, the next 2 * T/64 words (masked) in the poly
\* key, and, when no l3 candidate is rejected, the next 2 * T/64 words in the l3 key,
\* having read exactly UVMAC_KEY_LEN words (20 for T = 64, 26 for T = 128); with no
\* rejected candidate and key_length = UVMAC_KEY_LEN the call succeeds.
C15_KeyScheduleOrder ==
    last.op = "uvmac_set_key" =>
        LET F        == NhKeyWords + PolyKeyWords
            rejected == \E j \in F..(F + PolyKeyWords - 1) : ~Lt64(KeyWord(last.key, j), p64)
        IN  /\ last.reads = [i \in 1..Len(last.reads) |-> i - 1]
            /\ NhKeyWords = (UVMAC_NHBYTES \div 8) + 2 * (UVMAC_TAG_LEN \div 64 - 1)
            /\ PolyKeyWords = 2 * (UVMAC_TAG_LEN \div 64)
            /\ UVMAC_KEY_LEN = IF UVMAC_TAG_LEN = 64 THEN 20 ELSE 26
            /\ last.assert = 0 =>
                   /\ \A i \in 1..NhKeyWords : ctx.nhkey[i] = KeyWord(last.key, i - 1)
                   /\ \A i \in 1..PolyKeyWords :
                          ctx.polykey[i] = And64(KeyWord(last.key, NhKeyWords + i - 1), mpoly)
                   /\ ~rejected =>
                          /\ Len(last.reads) = UVMAC_KEY_LEN
                          /\ \A i \in 1..PolyKeyWords :
                                 ctx.l3key[i] = KeyWord(last.key, F + i - 1)
            /\ (~rejected /\ last.key_length = UVMAC_KEY_LEN) => last.assert = 0

\* uvmac_set_key has succeeded for 128-bit tags with exactly UVMAC_KEY_LEN words of
\* the key whose words all differ
C15_Witness ==
    /\ last.op = "uvmac_set_key"
    /\ last.assert = 0
    /\ UVMAC_TAG_LEN = 128
    /\ last.key = 2
    /\ last.key_length = UVMAC_KEY_LEN
    /\ Len(last.reads) = 26

\* C16: l3 key range. In every state of a keyed context (after uvmac_set_key, and
\* after every vhash_update, vhash, uvmac and vhash_abort that follows) every l3 key
\* word is below p64; after uvmac_set_key the i-th l3 key word is the i-th word
\* below p64 among those after the NH and poly key words.
C16_L3KeyRange ==
    /\ keyed => \A i \in 1..PolyKeyWords : Lt64(ctx.l3key[i], p64)
    /\ (last.op = "uvmac_set_key" /\ last.assert = 0) =>
           \A i \in 1..PolyKeyWords :
               \E j \in AcceptedUpTo(last.key_length - 1) :
                   /\ Cardinality(AcceptedUpTo(j)) = i
                   /\ ctx.l3key[i] = KeyWord(last.key, j)

\* uvmac_set_key has succeeded after discarding a candidate, and its first l3 key
\* word is p64 - 1 (64-bit tags)
C16_Witness ==
    /\ last.op = "uvmac_set_key"
    /\ last.assert = 0
    /\ Len(last.reads) = UVMAC_KEY_LEN + 1
    /\ UVMAC_TAG_LEN = 64
    /\ ctx.l3key[1] = << 254, 254, 255, 255, 255, 255, 255, 255 >>

\* ~mpoly: the bits a poly key word must not have
not_mpoly == << 0, 0, 0, 224, 0, 0, 0, 224 >>

\* C17: after every uvmac_set_key that succeeds, whatever the context held before,
\* every poly key word w has w & ~0x1FFFFFFF1FFFFFFF = 0, polytmp is polykey word
\* for word, and first_block_processed is 0.
C17_PostSetKey ==
    (last.op = "uvmac_set_key" /\ last.assert = 0) =>
        /\ \A i \in 1..PolyKeyWords : And64(ctx.polykey[i], not_mpoly) = Zero64
        /\ ctx.polytmp = ctx.polykey
        /\ ctx.first_block_processed = 0

\* uvmac_set_key has succeeded on a context whose first_block_processed was set, with
\* a key word that loses bits to the mask
C17_Witness ==
    /\ last.op = "uvmac_set_key"
    /\ last.assert = 0
    /\ last.fbp0 = 1
    /\ ctx.polykey[1] # KeyWord(last.key, NhKeyWords)

\* C18: padding transparency. The bytes of the buffer from the end of the tail to the
\* next 16-byte boundary do not influence the result: vhash returns what it returns
\* for the same message followed by zeroes.
C18_PaddingTransparency ==
    last.op = "vhash" =>
        LET h == vhash(MsgBuf(last.blocks, last.r, 0), LastBytes, << >>, last.ctx0)
        IN  res = h.ret /\ tagl = h.tagl

\* the uint64_t w is below 2^63
Below63(w) == w[8] < 128

\* the uint64_t w is at most 2^63 + 2^62
AtMost63p62(w) == w[8] < 192 \/ w = << 0, 0, 0, 0, 0, 0, 0, 192 >>

\* the high words of the poly state p, one for every tag half
HighWords(p) == { p[2 * h - 1] : h \in 1..(UVMAC_TAG_LEN \div 64) }

\* C19: poly-state normalization. In every state of a keyed context, after every
\* first-block add and every poly_step, the high word of the poly state of every tag
\* half is below 2^63.
C19_PolyStateNormalized ==
    keyed => \A w \in HighWords(ctx.polytmp) : Below63(w)

\* C19, as the code has it: the high word of the poly state is below 2^63 in a Fresh
\* context and after the first-block add; after a poly_step it is at most
\* 2^63 + 2^62, in polytmp and in the poly state vhash hands to l3hash (poly_step
\* masks a_hi to 63 bits and then adds m_hi < 2^62 and two carries).
C19_PolyStateBound ==
    /\ keyed => \A w \in HighWords(ctx.polytmp) : AtMost63p62(w)
    /\ (keyed /\ ctx.first_block_processed = 0) =>
           \A w \in HighWords(ctx.polytmp) : Below63(w)
    /\ (last.op = "vhash_update" /\ last.fbp0 = 0 /\ Len(last.blocks) = 1) =>
           \A w \in HighWords(ctx.polytmp) : Below63(w)
    /\ last.op = "vhash" =>
           \A w \in HighWords(vhash_poly(LastBuf, LastBytes, last.ctx0)) : AtMost63p62(w)

\* vhash_update has left, after a poly_step, a poly state whose high word is 2^63 or
\* more
C19_Witness ==
    /\ last.op = "vhash_update"
    /\ keyed
    /\ ctx.first_block_processed = 1
    /\ Len(last.absorbed0) + Len(last.blocks) > 1
    /\ \E w \in HighWords(ctx.polytmp) : ~Below63(w)

\* C20: independent contexts. With two contexts used in any interleaving, each
\* context has what its own calls alone give it: its process is stopped only by a
\* call on it, and two contexts that were handed the same vhash_update or uvmac call
\* in the same state (uvmac: with the same cursor) hold the same context and result
\* (uvmac: and cursor).
C20_IndependentContexts ==
    other.pair =>
        /\ halted => (last.assert # 0 /\ other.last.assert # 0)
        /\ (last = other.last /\ last.op \in {"vhash_update", "uvmac"}) =>
               /\ ctx = other.ctx
               /\ res = other.res
               /\ tagl = other.tagl
               /\ last.op = "uvmac" => consumable_key_position = other.pos

\* The context of the 64-bit machine that stands for tag half h (1 = high, 2 = low)
\* of the 128-bit context c: the NH key window that starts at word 2 * (h - 1), and
\* the pair h of polykey, l3key and polytmp
HalfCtx(c, h) ==
    [nhkey   |-> SubSeq(c.nhkey, 2 * h - 1, 2 * h - 2 + UVMAC_NHBYTES \div 8),
     polykey |-> SubSeq(c.polykey, 2 * h - 1, 2 * h),
     l3key   |-> SubSeq(c.l3key, 2 * h - 1, 2 * h),
     polytmp |-> SubSeq(c.polytmp, 2 * h - 1, 2 * h),
     first_block_processed |-> c.first_block_processed]

\* The UVMAC_TAG_LEN == 64 branches of vhash_update and vhash: NH of a full block
\* and of the remaining bytes, each masked to 62 bits
nh_full_64(m, mp, c) ==
    Mask62(nh_vhash_nhbytes(m, mp, c.nhkey, 0, UVMAC_NHBYTES \div 8))

nh_rem_64(m, mp, c, remaining) ==
    Mask62(nh_16(m, mp, c.nhkey, 0, 2 * ((remaining + 15) \div 16)))

\* poly_step(ch,cl,pkh,pkl,rh,rl) on ch = <<ch, cl>>
poly_64(ch, c, r) ==
    CASE Ev(<< ch, r >>) -> poly_step(ch[1], ch[2], c.polykey[1], c.polykey[2], r[1], r[2])

RECURSIVE loop_64(_, _, _, _, _)
\* while (i--) { NH; poly_step; mptr += UVMAC_NHBYTES/8 }
loop_64(m, mp, i, ch, c) ==
    CASE Ev(ch) ->
        IF i = 0 THEN ch
        ELSE loop_64(m, mp + UVMAC_NHBYTES \div 8, i - 1,
                     poly_64(ch, c, nh_full_64(m, mp, c)), c)

\* vhash_update of the 64-bit build: <<polytmp, first_block_processed>> left behind
vhash_update_64(m, mbytes, c) ==
    IF c.first_block_processed = 0
    THEN << loop_64(m, UVMAC_NHBYTES \div 8, mbytes \div UVMAC_NHBYTES - 1,
                    ADD128p(c.polytmp, nh_full_64(m, 0, c)), c), 1 >>
    ELSE << loop_64(m, 0, mbytes \div UVMAC_NHBYTES, c.polytmp, c),
            c.first_block_processed >>

\* if (remaining) { NH of the tail; poly_step }
remaining_64(m, mp, remaining, ch, c) ==
    CASE Ev(ch) ->
        IF remaining # 0 THEN poly_64(ch, c, nh_rem_64(m, mp, c, remaining)) ELSE ch

\* the poly state with which vhash of the 64-bit build arrives at do_l3
vhash_poly_64(m, mbytes, c) ==
    LET i         == mbytes \div UVMAC_NHBYTES
        remaining == mbytes % UVMAC_NHBYTES
        W         == UVMAC_NHBYTES \div 8
    IN  IF c.first_block_processed # 0
        THEN remaining_64(m, i * W, remaining, loop_64(m, 0, i, c.polytmp, c), c)
        ELSE IF i # 0
        THEN remaining_64(m, i * W, remaining,
                          loop_64(m, W, i - 1, ADD128p(nh_full_64(m, 0, c), c.polykey), c), c)
        ELSE IF remaining # 0
        THEN ADD128p(nh_rem_64(m, 0, c, remaining), c.polykey)
        ELSE c.polykey

\* the value vhash of the 64-bit build returns
vhash_64(m, mbytes, c) ==
    CASE Ev(<< m, c >>) ->
        LET p == vhash_poly_64(m, mbytes, c)
        IN  CASE Ev(p) -> l3hash(p[1], p[2], c.l3key[1], c.l3key[2], vhash_len(mbytes))

\* C21: with 128-bit tags, every vhash_update leaves in each polytmp pair what the
\* 64-bit vhash_update leaves for the context of that half (high half: NH key window
\* from word 0, first pairs of polykey and l3key; low half: NH key window from word
\* 2, second pairs), with the one first_block_processed flag for both; and every
\* vhash returns in its value and in *tagl what the 64-bit vhash returns for these
\* two contexts, on the same buffer and with the same length.
C21_TwoCopies ==
    UVMAC_TAG_LEN = 128 =>
        /\ last.op = "vhash_update" =>
               \A h \in 1..2 :
                   << SubSeq(ctx.polytmp, 2 * h - 1, 2 * h), ctx.first_block_processed >>
                       = vhash_update_64(LastBuf, LastBytes, HalfCtx(last.ctx0, h))
        /\ last.op = "vhash" =>
               /\ res = vhash_64(LastBuf, LastBytes, HalfCtx(last.ctx0, 1))
               /\ tagl = vhash_64(LastBuf, LastBytes, HalfCtx(last.ctx0, 2))

\* a 128-bit vhash of a block and a 19-byte tail has returned, after a block was
\* given to vhash_update, under a key whose words all differ: the halves differ
C21_Witness ==
    /\ UVMAC_TAG_LEN = 128
    /\ last.op = "vhash"
    /\ last.absorbed0 # << >>
    /\ last.blocks # << >>
    /\ last.r = 19
    /\ ctx.nhkey[1] # ctx.nhkey[3]
    /\ res # tagl

(***************************************************************************)
(* l3hash on its own                                                       *)
(***************************************************************************)

\* values of the poly state words handed to l3hash: 0, 1, 2^63 - 1, 2^63,
\* 2^63 + 2^62, 2^64 - 2^32 - 1 and 2^64 - 1
L3Words ==
    { Zero64, One64, m63, << 0, 0, 0, 0, 0, 0, 0, 128 >>, << 0, 0, 0, 0, 0, 0, 0, 192 >>,
      << 255, 255, 255, 255, 254, 255, 255, 255 >>, m64 }

\* l3 key words, all below p64 as uvmac_set_key leaves them: 0, 1, 2^63 - 100, p64 - 1
L3Keys ==
    { Zero64, One64, << 156, 255, 255, 255, 255, 255, 255, 127 >>,
      << 254, 254, 255, 255, 255, 255, 255, 255 >> }

\* remaining, the bytes after the last full block, as vhash computes it
L3Remaining == { 0, 19, UVMAC_NHBYTES - 1 }

\* a 64-bit context whose (polytmp[0], polytmp[1]) is any poly state and whose l3 key
\* pair is any pair below p64
InitL3 ==
    /\ UVMAC_TAG_LEN = 64
    /\ \E p1 \in L3Words, p2 \in L3Words, k1 \in L3Keys, k2 \in L3Keys :
         ctx = [nhkey   |-> Rep(<< Zero64 >>, NhKeyWords),
                polykey |-> Rep(<< Zero64 >>, PolyKeyWords),
                l3key   |-> << k1, k2 >>,
                polytmp |-> << p1, p2 >>,
                first_block_processed |-> 1]
    /\ keyed = TRUE
    /\ consumable_key_position = Zero64
    /\ res = << >>
    /\ tagl = << >>
    /\ halted = FALSE
    /\ absorbed = << >>
    /\ last = NoCall
    /\ other = NoOther
    /\ tool = NoTool

\* res = l3hash(ch, cl, ctx->l3key[0], ctx->l3key[1], remaining * 8), as at do_l3
L3hash(remaining) ==
    /\ Idle
    /\ res' = l3hash(ctx.polytmp[1], ctx.polytmp[2], ctx.l3key[1], ctx.l3key[2],
                     U64(remaining * 8))
    /\ last' = [NoCall EXCEPT !.op = "l3hash", !.r = remaining]
    /\ UNCHANGED << tool, other, UVMAC_TAG_LEN, ctx, keyed, consumable_key_position, tagl,
                    halted, absorbed >>

NextL3 == \E remaining \in L3Remaining : L3hash(remaining)

SpecL3 == InitL3 /\ [][NextL3]_vars

\* C22: whatever poly state, l3 key pair below p64 and length 8 * r (0 <= r <
\* UVMAC_NHBYTES) l3hash is called with, the value it returns is below p64.
C22_L3Range ==
    last.op = "l3hash" =>
        /\ Lt64(ctx.l3key[1], p64) /\ Lt64(ctx.l3key[2], p64)
        /\ Lt64(res, p64)

\* l3hash has returned from a call in which rl was at least p64 before the last
\* conditional + 257
C22_Witness ==
    /\ last.op = "l3hash"
    /\ ~Lt64(l3hash_unreduced(ctx.polytmp[1], ctx.polytmp[2], ctx.l3key[1], ctx.l3key[2],
                              U64(last.r * 8)), p64)
    /\ Lt64(res, c257)

\* C23: no step other than uvmac_set_key (vhash_update with any length, vhash, uvmac,
\* vhash_abort, and what the caller does between the calls) changes nhkey, polykey
\* or l3key of the context.
C23_KeysReadOnly ==
    [][last'.op # "uvmac_set_key" =>
           /\ ctx'.nhkey = ctx.nhkey
           /\ ctx'.polykey = ctx.polykey
           /\ ctx'.l3key = ctx.l3key]_vars

\* vhash_update has changed polytmp and set the flag of a keyed context, and the
\* three key fields are those it found
C23_Witness ==
    /\ last.op = "vhash_update"
    /\ last.fbp0 = 0
    /\ ctx.first_block_processed = 1
    /\ ctx.polytmp # last.ctx0.polytmp
    /\ ctx.polykey = last.ctx0.polykey
    /\ ctx.nhkey = last.ctx0.nhkey
    /\ ctx.l3key = last.ctx0.l3key

\* C24: in every state of a context that uvmac_set_key has keyed, reached by
\* vhash_update, vhash, uvmac and vhash_abort (a vhash_update that ran into a memory
\* fault on an invalid length aside), first_block_processed is 0 or 1; when it is 0,
\* polytmp equals polykey in every tag half; and it is 1 exactly when vhash_update has
\* been given at least one full block since the last uvmac_set_key, vhash_abort,
\* vhash or uvmac.
C24_FreshInvariant ==
    (keyed /\ ~(last.op = "vhash_update_badlen" /\ last.assert # 0)) =>
        /\ ctx.first_block_processed \in {0, 1}
        /\ ctx.first_block_processed = 0 => ctx.polytmp = ctx.polykey
        /\ ctx.first_block_processed = 1 <=> absorbed # << >>

\* both sides of the invariant on one path: vhash_update was given a block, and the
\* vhash_abort that followed found the flag set and left the context Fresh
C24_Witness ==
    /\ keyed
    /\ last.op = "vhash_abort"
    /\ last.fbp0 = 1
    /\ ctx.first_block_processed = 0
    /\ ctx.polytmp = ctx.polykey
    /\ absorbed = << >>

\* C25: vhash_update is compositional. After vhash_update(P1) on a context ctx0
\* (Fresh or Running), a vhash_update(P2) leaves the context that one
\* vhash_update(P1.P2) on ctx0 leaves, for every block P2; and when the blocks P0 were
\* given to vhash_update before P1, the context is the one that a single
\* vhash_update(P0.P1) leaves on the Fresh context.
C25_UpdateCompositional ==
    last.op = "vhash_update" =>
        /\ \A p2 \in BlockIds :
               vhash_update(Blocks[p2], UVMAC_NHBYTES, ctx)
                   = vhash_update(ConcatBlocks(last.blocks \o << p2 >>),
                                  MsgBytes(last.blocks \o << p2 >>, 0), last.ctx0)
        /\ last.absorbed0 # << >> =>
               ctx = vhash_update(ConcatBlocks(last.absorbed0 \o last.blocks),
                                  MsgBytes(last.absorbed0 \o last.blocks, 0),
                                  FreshOf(last.ctx0))

\* the second of two vhash_update calls has returned, each with one block, the
\* blocks different
C25_Witness ==
    /\ last.op = "vhash_update"
    /\ last.fbp0 = 1
    /\ Len(last.absorbed0) = 1
    /\ Len(last.blocks) = 1
    /\ last.absorbed0 # last.blocks
    /\ ctx.polytmp # last.ctx0.polytmp

(***************************************************************************)
(* xvhash, the finalizer that absorbs the full blocks through vhash_update *)
(***************************************************************************)

\* the poly state with which xvhash arrives at vhash_abort, c being the context
\* after its vhash_update of the first i bytes: if (remaining) { NH of the tail;
\* if (i) poly_step else ADD128(ch,cl,rh,rl) }
xvhash_remaining(m, i, remaining, c) ==
    IF remaining = 0 THEN c.polytmp
    ELSE IF i # 0
    THEN poly_halves(c.polytmp, c.polykey, nh_rem(m, i \div 8, c, remaining))
    ELSE add_halves(c.polytmp, nh_rem(m, i \div 8, c, remaining))

\* A faulty xvhash that adds the tail to the poly state after full blocks too
xvhash_tail_added(m, mbytes, tl, c) ==
    LET remaining == mbytes % UVMAC_NHBYTES
        i         == mbytes - remaining
        c1        == IF i # 0 THEN vhash_update(m, i, c) ELSE c
    IN  vhash_l3(IF remaining = 0 THEN c1.polytmp
                 ELSE add_halves(c1.polytmp, nh_rem(m, i \div 8, c1, remaining)),
                 mbytes, tl, c1)

\* uint64_t xvhash(m, mbytes, tagl, ctx): the value returned, *tagl and the context
\* left behind; its last statements are those of vhash from do_l3 on
xvhash(m, mbytes, tl, c) ==
    CASE Ev(<< m, c >>) ->
        LET remaining == mbytes % UVMAC_NHBYTES
            i         == mbytes - remaining
            c1        == IF i # 0 THEN vhash_update(m, i, c) ELSE c
        IN  vhash_l3(xvhash_remaining(m, i, remaining, c1), mbytes, tl, c1)

\* res = xvhash(m, mbytes, &tagl, &ctx), m holding the blocks ids and r tail bytes,
\* zero-padded to the next 16-byte boundary
Xvhash(ids, r) ==
    /\ Idle /\ keyed
    /\ \E h \in { xvhash(MsgBuf(ids, r, 0), MsgBytes(ids, r), << >>, ctx) } :
           /\ ctx' = h.ctx
           /\ res' = h.ret
           /\ tagl' = h.tagl
    /\ absorbed' = << >>
    /\ last' = [NoCall EXCEPT !.op = "xvhash", !.absorbed0 = absorbed, !.ctx0 = ctx,
                              !.fbp0 = ctx.first_block_processed, !.blocks = ids,
                              !.r = r, !.pos0 = consumable_key_position]
    /\ UNCHANGED << tool, other, UVMAC_TAG_LEN, keyed, consumable_key_position, halted >>

\* uvmac_set_key with enough key words, vhash_update, xvhash, and the caller taking
\* the result
NextX ==
    \/ \E k \in DOMAIN UserKeys, d \in {-1, 0} : SetKey(k, d)
    \/ \E ids \in BlockSeqs(MaxCallBlocks) : Update(ids)
    \/ \E ids \in BlockSeqs(MaxCallBlocks), r \in TailLens : Xvhash(ids, r)
    \/ TakeTag

SpecX == Init /\ [][NextX]_vars

\* C26: on a Fresh context (flag clear, polytmp = polykey) xvhash returns what vhash
\* returns on the same context and message, in its value and in *tagl, for the
\* empty message, a tail alone, full blocks alone and full blocks with a tail; and
\* it leaves the context vhash leaves, which is Fresh.
C26_XvhashAgrees ==
    (last.op = "xvhash" /\ last.fbp0 = 0 /\ last.ctx0.polytmp = last.ctx0.polykey) =>
        LET h == vhash(LastBuf, LastBytes, << >>, last.ctx0)
        IN  /\ res = h.ret
            /\ tagl = h.tagl
            /\ ctx = h.ctx
            /\ ctx = FreshOf(last.ctx0)

\* xvhash has returned on a Fresh 128-bit context from a message of a block and 19
\* bytes
C26_Witness ==
    /\ last.op = "xvhash"
    /\ last.fbp0 = 0
    /\ last.ctx0.polytmp = last.ctx0.polykey
    /\ UVMAC_TAG_LEN = 128
    /\ Len(last.blocks) = 1
    /\ last.r = 19
    /\ res # tagl

\* the values i takes in for (i = 0; i < nw; i += step)
LoopIndices(nw, step) == { i \in 0..(nw - 1) : i % step = 0 }

\* The indices of kp[] that the NH macros read when called with nw words
nh_16_keys(nw) == UNION { { i, i + 1 } : i \in LoopIndices(nw, 2) }

\* A faulty nh_16_2 whose second accumulator takes the key four words further
nh_16_2_keys_far(nw) == UNION { { i, i + 1, i + 4, i + 5 } : i \in LoopIndices(nw, 2) }

nh_16_2_keys(nw) == UNION { { i, i + 1, i + 2, i + 3 } : i \in LoopIndices(nw, 2) }

nh_vhash_nhbytes_keys(nw) == UNION { i..(i + 7) : i \in LoopIndices(nw, 8) }

nh_vhash_nhbytes_2_keys(nw) == UNION { i..(i + 9) : i \in LoopIndices(nw, 8) }

\* The indices of ctx->nhkey read by the NH call on a full block, and by the NH call
\* on remaining bytes after the last full block
FullBlockKeys ==
    IF UVMAC_TAG_LEN = 64 THEN nh_vhash_nhbytes_keys(UVMAC_NHBYTES \div 8)
    ELSE nh_vhash_nhbytes_2_keys(UVMAC_NHBYTES \div 8)

TailKeys(remaining) ==
    IF UVMAC_TAG_LEN = 64 THEN nh_16_keys(2 * ((remaining + 15) \div 16))
    ELSE nh_16_2_keys(2 * ((remaining + 15) \div 16))

\* C27: the NH key table of a keyed context has (UVMAC_NHBYTES/8) + 2 * (T/64 - 1)
\* words; for every tail length r with 0 < r < UVMAC_NHBYTES the tail NH is called
\* with nw = 2 * ceil(r/16) <= UVMAC_NHBYTES/8 words, and every key index read by an
\* NH call, on a tail or on a full block, with one accumulator or two, is below the
\* size of the table.
C27_NhKeyInBounds ==
    keyed =>
        /\ Len(ctx.nhkey) = (UVMAC_NHBYTES \div 8) + 2 * (UVMAC_TAG_LEN \div 64 - 1)
        /\ \A i \in FullBlockKeys : i < Len(ctx.nhkey)
        /\ \A r \in 1..(UVMAC_NHBYTES - 1) :
               /\ 2 * ((r + 15) \div 16) = 2 * Ceil16(r)
               /\ 2 * Ceil16(r) <= UVMAC_NHBYTES \div 8
               /\ \A i \in TailKeys(r) : i < Len(ctx.nhkey)

\* a 128-bit vhash has run NH on a full block and on a tail: the full-block NH has
\* read the last word of the key table
C27_Witness ==
    /\ keyed
    /\ UVMAC_TAG_LEN = 128
    /\ last.op = "vhash"
    /\ Len(last.blocks) = 1
    /\ last.r = 48
    /\ Len(ctx.nhkey) - 1 \in FullBlockKeys
    /\ Len(ctx.nhkey) - 1 \in TailKeys(UVMAC_NHBYTES - 1)

\* C28: every uvmac_set_key comes to an end, by returning or in the assert(0) of
\* get64bitsOfKey, having read at most key_length words of the user key, each once
\* and in increasing order; when it ends in assert(0) it has read all key_length words
\* (so the l3 loop stops on a key whose last words are all >= p64), and when it
\* returns every l3 slot holds a word below p64.
C28_SetKeyTerminates ==
    last.op = "uvmac_set_key" =>
        /\ Len(last.reads) <= last.key_length
        /\ \A i, j \in 1..Len(last.reads) : i < j => last.reads[i] < last.reads[j]
        /\ \A i \in 1..Len(last.reads) : last.reads[i] < last.key_length
        /\ last.assert # 0 => (halted /\ Len(last.reads) = last.key_length)
        /\ last.assert = 0 =>
               (keyed /\ \A i \in 1..PolyKeyWords : Lt64(ctx.l3key[i], p64))

\* uvmac_set_key has ended in the l3 loop on a key of 19 words whose last word,
\* the only l3 candidate, is p64: the candidate was read and rejected, and the next
\* get64bitsOfKey found no word left
C28_Witness ==
    /\ last.op = "uvmac_set_key"
    /\ last.assert # 0
    /\ UVMAC_TAG_LEN = 64
    /\ last.key_length = NhKeyWords + PolyKeyWords + 1
    /\ Len(last.reads) = last.key_length
    /\ ~Lt64(KeyWord(last.key, last.key_length - 1), p64)

\* C29: no pad word is used twice. A uvmac call never leaves the cursor below the
\* value it found, and one that returns leaves it above: so over calls that share the
\* stream and a cursor the caller never decreases, no stream index is read twice.
C29_PadWordsOnce ==
    last.op = "uvmac" =>
        /\ ~Lt64(consumable_key_position, last.pos0)
        /\ last.assert = 0 => Lt64(last.pos0, consumable_key_position)

(***************************************************************************)
(* The command-line tool (uvmac.cc), from its chunk loop on                *)
(***************************************************************************)

\* the message buffer holds BufBlocks blocks of UVMAC_NHBYTES bytes (3 MiB in uvmac.cc)
BufBlocks == 1
buf_len == BufBlocks * UVMAC_NHBYTES

\* key_length of the hash key file, and running_key_length of the pad key read from
\* the pad key file, in 64-bit words
hash_key_length == IF UVMAC_TAG_LEN = 64 THEN 20 ELSE 26
running_key_length == IF UVMAC_TAG_LEN = 64 THEN 1 ELSE 2
running_key == SubSeq(consumable_key, 1, 8 * running_key_length)

\* sizes of the input file: empty, a few bytes, and around the multiples of buf_len
FileSizes ==
    (0..17) \cup { buf_len - 1, buf_len, buf_len + 1, buf_len + 20,
                   2 * buf_len - 1, 2 * buf_len, 2 * buf_len + 1 }

\* the n bytes of the input file after its first pos bytes
FileBytes(pos, n) == [i \in 1..n |-> (7 * (pos + i) + 3) % 256]

\* file4 << hex << res: the hexadecimal digits of a uint64_t, the most significant
\* first, without leading zeroes
HexDigits(w) ==
    [i \in 1..16 |-> IF i % 2 = 1 THEN w[8 - (i - 1) \div 2] \div 16
                                  ELSE w[8 - (i - 1) \div 2] % 16]

Hex(w) ==
    LET D  == HexDigits(w)
        nz == { i \in 1..16 : D[i] # 0 }
    IN  IF nz = {} THEN << 0 >>
        ELSE SubSeq(D, CHOOSE i \in nz : \A j \in nz : i <= j, 16)

\* main before the chunk loop: ctx keyed from the hash key file, the pad key of the
\* message number loaded, running_key_position = 0, res and tagl not yet assigned
InitTool ==
    /\ UVMAC_TAG_LEN \in {64, 128}
    /\ \E k \in DOMAIN UserKeys :
         \E s \in { uvmac_set_key(UserKeys[k], U64(hash_key_length),
                                  [nhkey   |-> Rep(<< Zero64 >>, NhKeyWords),
                                   polykey |-> Rep(<< Zero64 >>, PolyKeyWords),
                                   l3key   |-> Rep(<< Zero64 >>, PolyKeyWords),
                                   polytmp |-> Rep(<< Zero64 >>, PolyKeyWords),
                                   first_block_processed |-> 0]) } :
             /\ ~s.assert
             /\ ctx = s.ctx
    /\ keyed = TRUE
    /\ consumable_key_position = Zero64
    /\ res = << >>
    /\ tagl = << >>
    /\ halted = FALSE
    /\ absorbed = << >>
    /\ last = NoCall
    /\ other = NoOther
    /\ \E n \in FileSizes : tool = [NoTool EXCEPT !.pc = "loop", !.fileSize = n]

\* lengthToRead of the loop iteration at hand
lengthToRead == IF tool.fileSize - tool.pos < buf_len THEN tool.fileSize - tool.pos
                ELSE buf_len

\* an iteration with pos + lengthToRead < fileSize: vhash_update of the chunk
ToolUpdate ==
    /\ tool.pc = "loop"
    /\ tool.pos < tool.fileSize
    /\ tool.pos + lengthToRead < tool.fileSize
    /\ IF lengthToRead % UVMAC_NHBYTES = 0       \* assert((lengthToRead % UVMAC_NHBYTES) == 0)
       THEN /\ ctx' = vhash_update(FileBytes(tool.pos, lengthToRead), lengthToRead, ctx)
            /\ tool' = [tool EXCEPT !.pos = @ + lengthToRead,
                                    !.calls = Append(@, "vhash_update")]
            /\ halted' = halted
       ELSE /\ halted' = TRUE
            /\ tool' = [tool EXCEPT !.pc = "aborted"]
            /\ ctx' = ctx
    /\ UNCHANGED << other, UVMAC_TAG_LEN, keyed, consumable_key_position, res, tagl,
                    absorbed, last >>

\* the iteration on the last chunk: m[j] = 0 from j = lengthToRead - 1 on, then
\* res = uvmac(m, lengthToRead - 1, &tagl, &ctx, running_key, running_key_length,
\*             &running_key_position)
ToolUvmac ==
    /\ tool.pc = "loop"
    /\ tool.pos < tool.fileSize
    /\ ~(tool.pos + lengthToRead < tool.fileSize)
    /\ \E u \in { uvmac(SubSeq(FileBytes(tool.pos, lengthToRead), 1, lengthToRead - 1)
                            \o Rep(<< 0 >>, 17),
                       lengthToRead - 1, tagl, ctx, running_key, U64(running_key_length),
                       consumable_key_position, Zero64, Zero64) } :
           /\ ctx' = u.ctx
           /\ res' = u.ret
           /\ tagl' = u.tagl
           /\ consumable_key_position' = u.pos
           /\ halted' = (u.assert # 0)
           /\ tool' = [tool EXCEPT !.pos = @ + lengthToRead,
                                   !.calls = Append(@, "uvmac"),
                                   !.ret = u.ret,
                                   !.pc = IF u.assert # 0 THEN "aborted" ELSE "loop"]
    /\ UNCHANGED << other, UVMAC_TAG_LEN, keyed, absorbed, last >>

\* after the loop: file4 << hex << res. A res that no iteration has assigned is an
\* uninitialized uint64_t: it holds whatever the stack held.
ToolWrite ==
    /\ tool.pc = "loop"
    /\ ~(tool.pos < tool.fileSize)
    /\ \E v \in IF res = << >> THEN OobWords ELSE { res } :
           tool' = [tool EXCEPT !.pc = "done", !.written = Hex(v)]
    /\ UNCHANGED << other, UVMAC_TAG_LEN, ctx, keyed, consumable_key_position, res, tagl,
                    halted, absorbed, last >>

NextTool == ToolUpdate \/ ToolUvmac \/ ToolWrite

SpecTool == InitTool /\ [][NextTool]_vars

\* the uint64_t that a text of hexadecimal digits stands for
HexValue(ds) ==
    LET P == Rep(<< 0 >>, 16 - Len(ds)) \o ds
    IN  [j \in 1..8 |-> 16 * P[17 - 2 * j] + P[18 - 2 * j]]

\* C30: whatever the size of the input file, when the tool has written the .tag
\* file its chunk loop has called uvmac exactly once, as its last call, after all
\* its vhash_update calls, and the text written is the value that uvmac returned.
C30_ToolWritesTag ==
    tool.pc = "done" =>
        /\ Cardinality({ i \in DOMAIN tool.calls : tool.calls[i] = "uvmac" }) = 1
        /\ tool.calls[Len(tool.calls)] = "uvmac"
        /\ tool.ret # << >>
        /\ HexValue(tool.written) = tool.ret
=============================================================================
